---- MODULE Spec2Model ----
(***************************************************************************)
(* Find/Replace engine of the Backup Utility (src/unnamed/part_000,        *)
(* lines 554-561 and 830-1208).                                            *)
(*                                                                         *)
(* Texts are sequences of one-character strings; every offset is 0-based   *)
(* as in the source, so the character at offset i of t is t[i+1].          *)
(***************************************************************************)
EXTENDS Integers, Sequences, FiniteSets, TLC

\* frData, frPtr, frMatch, currentMatchDisplay and toasts are the state of the
\* component; session, phase, fwd and bwd belong to the scripted runs below
\* and stay as they are while the handlers run freely; selectedEpubFile,
\* statusMessage and downloadUrl are the state of the EPUB to ZIP tool;
\* caches, worker and respond belong to the service worker
VARIABLES frData, frPtr, frMatch, currentMatchDisplay, toasts,
          session, phase, fwd, bwd,
          selectedEpubFile, statusMessage, downloadUrl,
          caches, worker, respond

vars == <<frData, frPtr, frMatch, currentMatchDisplay, toasts,
          session, phase, fwd, bwd,
          selectedEpubFile, statusMessage, downloadUrl,
          caches, worker, respond>>

engine == <<frData, frPtr, frMatch, currentMatchDisplay>>
script == <<session, phase, fwd, bwd>>
\* the state of the EPUB to ZIP tool, a component of its own
epub == <<selectedEpubFile, statusMessage, downloadUrl>>
\* cache storage, the life cycle of the service worker and what it handed
\* to the last event.respondWith
sw == <<caches, worker, respond>>

-----------------------------------------------------------------------------
(* Bounds                                                                  *)

\* longest block text the replace operations may build
MaxLen == 3
\* most scenes in a loadable backup
MaxScenes == 2
\* most times a status message gets 'Error: ' put in front of it
MaxErrors == 2

\* Number.MAX_SAFE_INTEGER (2^53 - 1 in the source); only ever compared with
\* block counts and offsets, so the largest 32-bit value stands in for it
MAX_SAFE_INTEGER == 2147483647

-----------------------------------------------------------------------------
(* Strings                                                                 *)

Min(a, b) == IF a < b THEN a ELSE b
Max(a, b) == IF a > b THEN a ELSE b

\* String.prototype.substring(from, to) with both arguments clamped
substring(t, from, to) ==
  LET f == Min(Max(from, 0), Len(t))
      e == Min(Max(to, 0), Len(t))
  IN  IF f >= e THEN <<>> ELSE SubSeq(t, f + 1, e)

\* String.prototype.substring(from)
substringFrom(t, from) == substring(t, from, Len(t))

startsAt(t, p, i) ==
  /\ i >= 0
  /\ i + Len(p) <= Len(t)
  /\ \A k \in 1..Len(p) : t[i + k] = p[k]

\* String.prototype.indexOf(p, from): least index >= from, or -1
indexOf(t, p, from) ==
  LET f    == Min(Max(from, 0), Len(t))
      hits == { i \in f..Len(t) : startsAt(t, p, i) }
  IN  IF hits = {} THEN -1
      ELSE CHOOSE i \in hits : \A k \in hits : i <= k

-----------------------------------------------------------------------------
(* Regular expressions: new RegExp(pattern, 'g') over the pattern alphabet  *)
(* a, b, * and [.  A literal character may carry a greedy star; a star     *)
(* with nothing to repeat and an unterminated class are SyntaxErrors.      *)

isLiteralChar(c) == c \in {"a", "b"}

\* new RegExp(pattern, 'g') returns instead of throwing
Compiles(p) ==
  \A k \in 1..Len(p) :
    /\ p[k] # "["
    /\ p[k] = "*" => (k > 1 /\ isLiteralChar(p[k - 1]))

\* the compiled pattern: one atom per literal character
RECURSIVE Atoms(_)
Atoms(p) ==
  IF p = <<>> THEN <<>>
  ELSE IF Len(p) >= 2 /\ p[2] = "*"
       THEN <<[ch |-> p[1], star |-> TRUE]>> \o Atoms(SubSeq(p, 3, Len(p)))
       ELSE <<[ch |-> p[1], star |-> FALSE]>> \o Atoms(Tail(p))

\* length of the run of c in t starting at offset pos
RECURSIVE runLength(_, _, _)
runLength(t, c, pos) ==
  IF pos < Len(t) /\ t[pos + 1] = c THEN 1 + runLength(t, c, pos + 1) ELSE 0

\* backtracking matcher: length of the match of atoms k.. anchored at pos,
\* or -1; a star tries its longest repetition first
RECURSIVE matchHere(_, _, _, _)
RECURSIVE matchStar(_, _, _, _, _)
matchHere(atoms, k, t, pos) ==
  IF k > Len(atoms) THEN 0
  ELSE IF atoms[k].star
       THEN matchStar(atoms, k, t, pos, runLength(t, atoms[k].ch, pos))
       ELSE IF pos < Len(t) /\ t[pos + 1] = atoms[k].ch
            THEN LET r == matchHere(atoms, k + 1, t, pos + 1)
                 IN  IF r = -1 THEN -1 ELSE r + 1
            ELSE -1
matchStar(atoms, k, t, pos, n) ==
  LET r == matchHere(atoms, k + 1, t, pos + n)
  IN  IF r # -1 THEN n + r
      ELSE IF n = 0 THEN -1
      ELSE matchStar(atoms, k, t, pos, n - 1)

NoExec == [index |-> -1, length |-> 0]

\* RegExp.prototype.exec with lastIndex = start: the leftmost match at or
\* after start; null when lastIndex is past the end of the text
exec(p, t, start) ==
  LET atoms == Atoms(p)
      hits  == { i \in start..Len(t) : matchHere(atoms, 1, t, i) # -1 }
  IN  IF start > Len(t) \/ hits = {} THEN NoExec
      ELSE LET i == CHOOSE h \in hits : \A k \in hits : h <= k
           IN  [index |-> i, length |-> matchHere(atoms, 1, t, i)]

-----------------------------------------------------------------------------
(* The backup record (interfaces Scene, Revision, BackupData)              *)
(*                                                                         *)
(* A block is a text block, a block of another type, or a null entry of    *)
(* the blocks array.  Scene.text is a string that holds JSON; its value is *)
(* kept as what JSON.parse makes of it:                                    *)
(*   kind "json"     an object whose blocks member is the array `blocks`   *)
(*   kind "noblocks" an object without a blocks array                      *)
(*   kind "blank"    the empty or all-whitespace string                    *)
(*   kind "garbage"  a string JSON.parse rejects                           *)
(* and `form` tells the strings apart that parse to the same blocks: "file"*)
(* is the text as the backup file had it, "blocksOnly" the output of       *)
(* JSON.stringify({ blocks }), "content" of JSON.stringify(sceneContent).  *)

TextBlock(t) == [type |-> "text", text |-> t]
ImageBlock == [type |-> "image", text |-> <<>>]
NullBlock == [type |-> "null", text |-> <<>>]

\* the test of the block's type left out: !block is all that is tested
isTextBlockOfAnyType(block) == block.type # "null"

\* !(!block || block.type !== 'text' || typeof block.text !== 'string')
isTextBlock(block) == block.type = "text"

SceneText(blocks) == [kind |-> "json", blocks |-> blocks, form |-> "file"]
BlankText == [kind |-> "blank", blocks |-> <<>>, form |-> "file"]
GarbageText == [kind |-> "garbage", blocks |-> <<>>, form |-> "file"]
NoBlocksText == [kind |-> "noblocks", blocks |-> <<>>, form |-> "file"]

\* JSON.parse(text) returns instead of throwing
parses(text) == text.kind \in {"json", "noblocks"}

\* frData === null
NoData == [loaded |-> FALSE, scenes |-> <<>>, dates |-> 0]
BackupData(scenes) == [loaded |-> TRUE, scenes |-> scenes, dates |-> 0]

\* an object built from a record: `shared` tells whether a write to it is
\* a write to the record it was built from
\* tempFrData = frData: the same object under another name
sameObject(data) == [record |-> data, shared |-> TRUE]
\* JSON.parse(JSON.stringify(frData)): a new object that shares no part
\* with frData
deepCopy(data) == [record |-> data, shared |-> FALSE]
\* what is read through the old reference `data` once the handler has
\* turned the object `copy` into `written`
readAfterWrite(data, copy, written) == IF copy.shared THEN written ELSE data

\* frMatchRef.current === null
Null == [sceneIndex |-> -1, blockIndex |-> -1, matchIndex |-> -1, matchLength |-> 0]
Origin == [scene |-> 0, block |-> 0, offset |-> 0]

-----------------------------------------------------------------------------
(* Forward search                                                          *)

\* the block loop without its guard against the empty plain pattern
emptyPlainPatternUnguarded(pattern, useRegex) == FALSE

\* !pattern && !useRegex: the guard inside the block loop
emptyPlainPattern(pattern, useRegex) == pattern = <<>> /\ ~useRegex

\* the cursor left at the end of the match, an empty one included
offsetAtMatchEnd(index, length) == index + length

\* match.index + (match.length > 0 ? match.length : 1)
offsetAfterMatch(index, length) == index + (IF length > 0 THEN length ELSE 1)

\* the two loops of findNextMatchInternal; tp is tempPtr, cur the value of
\* frPtrRef.current on entry, i and j the 0-based loop indices.  The result
\* holds the returned match, frPtrRef.current on return and the toast shown.
RECURSIVE fnScene(_, _, _, _, _, _)
RECURSIVE fnBlock(_, _, _, _, _, _, _, _)
fnScene(pattern, useRegex, scenes, tp, cur, i) ==
  IF i >= Len(scenes) THEN [match |-> Null, ptr |-> cur, toast |-> "none"]
  ELSE LET text == scenes[i + 1].text
           rst  == IF i = tp.scene THEN [tp EXCEPT !.block = 0, !.offset = 0] ELSE tp
       IN  IF text.kind = "blank" \/ ~parses(text)
           THEN fnScene(pattern, useRegex, scenes, rst, cur, i + 1)
           ELSE fnBlock(pattern, useRegex, scenes, tp, cur, i,
                        IF text.kind = "json" THEN text.blocks ELSE <<>>,
                        IF i = tp.scene THEN tp.block ELSE 0)
fnBlock(pattern, useRegex, scenes, tp, cur, i, blocks, j) ==
  IF j >= Len(blocks)
  THEN fnScene(pattern, useRegex, scenes,
               IF i = tp.scene THEN [tp EXCEPT !.block = 0, !.offset = 0] ELSE tp,
               cur, i + 1)
  ELSE LET block == blocks[j + 1]
           here  == i = tp.scene /\ j = tp.block
           skip  == IF here THEN [tp EXCEPT !.offset = 0] ELSE tp
           next  == fnBlock(pattern, useRegex, scenes, skip, cur, i, blocks, j + 1)
       IN  IF ~isTextBlock(block) THEN next
           ELSE LET blockText   == block.text
                    searchStart == IF here /\ tp.offset >= 0 THEN tp.offset ELSE 0
                IN  IF searchStart >= Len(blockText) /\ Len(blockText) > 0 THEN next
                    ELSE IF emptyPlainPattern(pattern, useRegex) THEN next
                    ELSE IF useRegex /\ ~Compiles(pattern)
                         THEN [match |-> Null, ptr |-> cur, toast |-> "Regex Error"]
                    ELSE LET m == IF useRegex
                                  THEN exec(pattern, blockText, searchStart)
                                  ELSE LET idx == indexOf(blockText, pattern, searchStart)
                                       IN  [index  |-> idx,
                                            length |-> IF idx # -1 THEN Len(pattern) ELSE 0]
                         IN  IF m.index # -1
                             THEN [match |-> [sceneIndex |-> i, blockIndex |-> j,
                                              matchIndex |-> m.index,
                                              matchLength |-> m.length],
                                   ptr   |-> [scene |-> i, block |-> j,
                                              offset |-> offsetAfterMatch(m.index, m.length)],
                                   toast |-> "none"]
                             ELSE next

findNextMatchInternal(pattern, useRegex, currentFrData, currentFrPtr) ==
  LET scenes  == currentFrData.scenes
      tempPtr == IF currentFrPtr.scene < 0 THEN Origin ELSE currentFrPtr
  IN  IF ~currentFrData.loaded \/ tempPtr.scene >= Len(scenes)
      THEN [match |-> Null, ptr |-> currentFrPtr, toast |-> "none"]
      ELSE fnScene(pattern, useRegex, scenes, tempPtr, currentFrPtr, tempPtr.scene)

-----------------------------------------------------------------------------
(* Backward search                                                         *)

\* the literal branch: while ((currentIdx = blockText.indexOf(pattern,
\* currentIdx + 1)) !== -1 && currentIdx < searchEnd) push; `last` is the
\* last element pushed so far
RECURSIVE literalMatchesInBlock(_, _, _, _, _)
literalMatchesInBlock(blockText, pattern, currentIdx, searchEnd, last) ==
  LET idx == indexOf(blockText, pattern, currentIdx + 1)
  IN  IF idx # -1 /\ idx < searchEnd
      THEN literalMatchesInBlock(blockText, pattern, idx, searchEnd,
                                 [index |-> idx, length |-> Len(pattern)])
      ELSE last

\* the regex branch: while ((match = regex.exec(blockText)) !== null) with
\* the break at searchEnd and the lastIndex++ after an empty match
RECURSIVE regexMatchesInBlock(_, _, _, _, _)
regexMatchesInBlock(blockText, pattern, lastIndex, searchEnd, last) ==
  LET match == exec(pattern, blockText, lastIndex)
  IN  IF match.index = -1 \/ ~(match.index < searchEnd) THEN last
      ELSE regexMatchesInBlock(blockText, pattern,
             IF match.length = 0 THEN match.index + 1
                                 ELSE match.index + match.length,
             searchEnd, match)

RECURSIVE fpScene(_, _, _, _, _, _)
RECURSIVE fpBlock(_, _, _, _, _, _, _, _)
fpScene(pattern, useRegex, scenes, tp, cur, i) ==
  IF i < 0 THEN [match |-> Null, ptr |-> cur, toast |-> "none"]
  ELSE LET text == scenes[i + 1].text
           rst  == IF i = tp.scene
                   THEN [tp EXCEPT !.block = MAX_SAFE_INTEGER,
                                   !.offset = MAX_SAFE_INTEGER]
                   ELSE tp
       IN  IF text.kind = "blank" \/ ~parses(text)
           THEN fpScene(pattern, useRegex, scenes, rst, cur, i - 1)
           ELSE LET blocks == IF text.kind = "json" THEN text.blocks ELSE <<>>
                    startBlock == IF i = tp.scene
                                  THEN Min(tp.block, Len(blocks) - 1)
                                  ELSE Len(blocks) - 1
                IN  fpBlock(pattern, useRegex, scenes, tp, cur, i, blocks, startBlock)
fpBlock(pattern, useRegex, scenes, tp, cur, i, blocks, j) ==
  IF j < 0
  THEN fpScene(pattern, useRegex, scenes,
               IF i = tp.scene
               THEN [tp EXCEPT !.block = MAX_SAFE_INTEGER, !.offset = MAX_SAFE_INTEGER]
               ELSE tp,
               cur, i - 1)
  ELSE LET block == blocks[j + 1]
           here  == i = tp.scene /\ j = tp.block
           skip  == IF here THEN [tp EXCEPT !.offset = MAX_SAFE_INTEGER] ELSE tp
           next  == fpBlock(pattern, useRegex, scenes, skip, cur, i, blocks, j - 1)
       IN  IF ~isTextBlock(block) THEN next
           ELSE LET blockText == block.text
                    searchEnd == IF here THEN tp.offset ELSE Len(blockText)
                IN  IF searchEnd <= 0 /\ Len(blockText) > 0 THEN next
                    ELSE IF emptyPlainPattern(pattern, useRegex) THEN next
                    ELSE IF useRegex /\ ~Compiles(pattern)
                         THEN [match |-> Null, ptr |-> cur, toast |-> "Regex Error"]
                    ELSE LET lastMatch ==
                               IF useRegex
                               THEN regexMatchesInBlock(blockText, pattern, 0,
                                                        searchEnd, NoExec)
                               ELSE literalMatchesInBlock(blockText, pattern, -1,
                                                          searchEnd, NoExec)
                         IN  IF lastMatch.index # -1
                             THEN [match |-> [sceneIndex |-> i, blockIndex |-> j,
                                              matchIndex |-> lastMatch.index,
                                              matchLength |-> lastMatch.length],
                                   ptr   |-> [scene |-> i, block |-> j,
                                              offset |-> lastMatch.index],
                                   toast |-> "none"]
                             ELSE next

findPreviousMatchInternal(pattern, useRegex, currentFrData, currentFrPtr) ==
  LET scenes  == currentFrData.scenes
      tempPtr == IF currentFrPtr.scene >= Len(scenes)
                 THEN [scene |-> Len(scenes) - 1, block |-> MAX_SAFE_INTEGER,
                       offset |-> MAX_SAFE_INTEGER]
                 ELSE currentFrPtr
  IN  IF ~currentFrData.loaded \/ tempPtr.scene < 0
      THEN [match |-> Null, ptr |-> currentFrPtr, toast |-> "none"]
      ELSE fpScene(pattern, useRegex, scenes, tempPtr, currentFrPtr, tempPtr.scene)

-----------------------------------------------------------------------------
(* Replacement                                                             *)

\* the literal scan resumed one character after a hit instead of after the
\* whole occurrence
RECURSIVE literalReplaceAllOverlapping(_, _, _, _, _, _)
literalReplaceAllOverlapping(originalBlockText, pattern, replacement, lastIndex, newBlockText, count) ==
  LET foundIndex == indexOf(originalBlockText, pattern, lastIndex)
  IN  IF foundIndex = -1
      THEN [text  |-> newBlockText \o substringFrom(originalBlockText, lastIndex),
            count |-> count]
      ELSE literalReplaceAllOverlapping(originalBlockText, pattern, replacement,
             foundIndex + 1,
             newBlockText \o substring(originalBlockText, lastIndex, foundIndex)
                          \o replacement,
             count + 1)

\* the literal branch of handleReplaceAllMatches on one block: the while
\* loop from foundIndex = indexOf(findPattern, lastIndex) on; the result is
\* newBlockText and the number of replacementsCount++ executed
RECURSIVE literalReplaceAll(_, _, _, _, _, _)
literalReplaceAll(originalBlockText, pattern, replacement, lastIndex, newBlockText, count) ==
  LET foundIndex == indexOf(originalBlockText, pattern, lastIndex)
  IN  IF foundIndex = -1
      THEN [text  |-> newBlockText \o substringFrom(originalBlockText, lastIndex),
            count |-> count]
      ELSE literalReplaceAll(originalBlockText, pattern, replacement,
             foundIndex + Len(pattern),
             newBlockText \o substring(originalBlockText, lastIndex, foundIndex)
                          \o replacement,
             count + 1)

\* originalBlockText.replace(regex, () => replaceText) with a global regex:
\* every match from lastIndex 0 on, stepping one past an empty match, the
\* callback run once per match; position is the end of the previous match
RECURSIVE regexReplaceAll(_, _, _, _, _, _, _)
RECURSIVE regexReplaceMatch(_, _, _, _, _, _, _)
regexReplaceAll(originalBlockText, pattern, replacement, lastIndex, position, newBlockText, count) ==
  regexReplaceMatch(originalBlockText, pattern, replacement, position,
                    newBlockText, count,
                    exec(pattern, originalBlockText, lastIndex))

\* ... with the result `match` of the exec: the end of the scan, or one run of
\* the callback and the next exec
regexReplaceMatch(originalBlockText, pattern, replacement, position, newBlockText, count, match) ==
  IF match.index = -1
  THEN [text  |-> newBlockText \o substringFrom(originalBlockText, position),
        count |-> count]
  ELSE regexReplaceAll(originalBlockText, pattern, replacement,
         IF match.length = 0 THEN match.index + 1
                             ELSE match.index + match.length,
         match.index + match.length,
         newBlockText \o substring(originalBlockText, position, match.index)
                      \o replacement,
         count + 1)

\* the body of `for (const block of sceneContent.blocks)` from block j on
\* (1-based); the result holds the blocks as left behind, the replacements
\* counted, sceneModified, and whether an exception left the loop
RECURSIVE replaceInBlocks(_, _, _, _, _, _, _)
RECURSIVE replacedInBlock(_, _, _, _, _, _, _, _)
replaceInBlocks(blocks, j, pattern, useRegex, replacement, sceneModified, count) ==
  IF j > Len(blocks)
  THEN [blocks |-> blocks, count |-> count, modified |-> sceneModified,
        threw |-> FALSE]
  ELSE LET block == blocks[j]
       IN  IF block.type = "null"
           THEN [blocks |-> blocks, count |-> count, modified |-> sceneModified,
                 threw |-> TRUE]
           ELSE IF ~(isTextBlock(block) /\ Len(block.text) > 0)
           THEN replaceInBlocks(blocks, j + 1, pattern, useRegex, replacement,
                                sceneModified, count)
           ELSE IF useRegex /\ ~Compiles(pattern)
           THEN [blocks |-> blocks, count |-> count, modified |-> sceneModified,
                 threw |-> TRUE]
           ELSE replacedInBlock(blocks, j, pattern, useRegex, replacement,
                                sceneModified, count,
                                IF useRegex
                                THEN regexReplaceAll(block.text, pattern, replacement,
                                                     0, 0, <<>>, 0)
                                ELSE literalReplaceAll(block.text, pattern, replacement,
                                                       0, <<>>, 0))

\* `if (sceneModified) block.text = newBlockText` with r.text the newBlockText
\* and r.count the replacements counted in block j, then the blocks after it
replacedInBlock(blocks, j, pattern, useRegex, replacement, sceneModified, count, r) ==
  IF sceneModified \/ r.count > 0
  THEN replaceInBlocks([blocks EXCEPT ![j].text = r.text], j + 1, pattern,
                       useRegex, replacement, TRUE, count + r.count)
  ELSE replaceInBlocks(blocks, j + 1, pattern, useRegex, replacement, FALSE,
                       count + r.count)

\* the scene text written back whether or not a block was changed
sceneAfterBlocksAlwaysSerialised(scene, r) ==
  [scene |-> IF ~r.threw
             THEN [scene EXCEPT !.text = [kind |-> "json", blocks |-> r.blocks,
                                          form |-> "content"]]
             ELSE scene,
   count |-> r.count,
   threw |-> r.threw]

\* one turn of `for (const scene of scenes)`: the scene as it is afterwards,
\* the replacements counted in it and whether the catch clause ran
\* `if (sceneModified) scene.text = JSON.stringify(sceneContent)`, which an
\* exception in the block loop skips; r is what the block loop left
sceneAfterBlocks(scene, r) ==
  [scene |-> IF r.modified /\ ~r.threw
             THEN [scene EXCEPT !.text = [kind |-> "json", blocks |-> r.blocks,
                                          form |-> "content"]]
             ELSE scene,
   count |-> r.count,
   threw |-> r.threw]

replaceInScene(scene, pattern, useRegex, replacement) ==
  IF scene.text.kind # "json"
  THEN [scene |-> scene, count |-> 0, threw |-> TRUE]
  ELSE sceneAfterBlocks(scene,
                        replaceInBlocks(scene.text.blocks, 1, pattern, useRegex,
                                        replacement, FALSE, 0))

\* `for (const scene of scenes)` from scene k on (1-based): tempFrData's
\* scenes, replacementsCount and whether any scene's catch clause ran
RECURSIVE replaceInScenes(_, _, _, _, _, _, _)
RECURSIVE replacedInScene(_, _, _, _, _, _, _, _)
replaceInScenes(scenes, k, pattern, useRegex, replacement, count, threw) ==
  IF k > Len(scenes)
  THEN [scenes |-> scenes, count |-> count, threw |-> threw]
  ELSE replacedInScene(scenes, k, pattern, useRegex, replacement, count, threw,
                       replaceInScene(scenes[k], pattern, useRegex, replacement))

\* ... with r the outcome of scene k, then the scenes after it
replacedInScene(scenes, k, pattern, useRegex, replacement, count, threw, r) ==
  replaceInScenes([scenes EXCEPT ![k] = r.scene], k + 1, pattern, useRegex,
                  replacement, count + r.count, threw \/ r.threw)

\* Date.now(): later than every date taken before
now(data) == IF data.dates = 1 THEN 2 ELSE 1

-----------------------------------------------------------------------------
(* Handlers                                                                *)

\* setCurrentMatchDisplay(text); count is the number a message carries
Display(text) == [text |-> text, count |-> 0]

\* showToast during one handler call: toasts holds the messages it showed
handleFrBackupFileChange(file) ==
  /\ IF file.picked /\ file.valid
     THEN /\ frData' = file.data
          /\ frPtr' = Origin
          /\ frMatch' = Null
          /\ currentMatchDisplay' = Display("Backup loaded")
          /\ toasts' = {"Backup file loaded"}
     ELSE IF file.picked
     THEN /\ frData' = NoData
          /\ currentMatchDisplay' = Display("Error loading backup file")
          /\ toasts' = {"Error loading backup"}
          /\ UNCHANGED <<frPtr, frMatch>>
     ELSE /\ frData' = NoData
          /\ currentMatchDisplay' = Display("Load a backup file")
          /\ toasts' = {}
          /\ UNCHANGED <<frPtr, frMatch>>

\* !findPattern && !useRegexBackup: the guard at the head of a handler
rejectsPattern(findPattern, useRegexBackup) == findPattern = <<>> /\ ~useRegexBackup

\* a search that finds nothing leaves the match of the search before it
matchAfterFindKeepingHeld(held, match) == IF match = Null THEN held ELSE match

\* frMatchRef.current = match, after either search
matchAfterFind(held, match) == match

\* what both find handlers do with the result of the internal search
findHandler(findPattern, useRegexBackup, match, none) ==
  IF ~frData.loaded
  THEN toasts' = {"No backup data loaded"} /\ UNCHANGED engine
  ELSE IF rejectsPattern(findPattern, useRegexBackup)
  THEN toasts' = {"Find pattern cannot be empty"} /\ UNCHANGED engine
  ELSE /\ frPtr' = match.ptr
       /\ frMatch' = matchAfterFind(frMatch, match.match)
       /\ currentMatchDisplay' = Display(IF match.match # Null THEN "Match found" ELSE none)
       /\ toasts' = (IF match.toast = "none" THEN {} ELSE {match.toast})
       /\ UNCHANGED frData

handleFindNextMatch(findPattern, useRegexBackup) ==
  findHandler(findPattern, useRegexBackup,
              findNextMatchInternal(findPattern, useRegexBackup, frData, frPtr),
              "No more matches found")

handleFindPreviousMatch(findPattern, useRegexBackup) ==
  findHandler(findPattern, useRegexBackup,
              findPreviousMatchInternal(findPattern, useRegexBackup, frData, frPtr),
              "No previous matches found")

\* the try block of handleReplaceMatch runs to its end: the scene exists,
\* its text parses and the block has a text to take substrings of
replaceTargetExists(data, match) ==
  /\ match.sceneIndex >= 0
  /\ match.sceneIndex < Len(data.scenes)
  /\ LET text == data.scenes[match.sceneIndex + 1].text
     IN  /\ text.kind = "json"
         /\ match.blockIndex >= 0
         /\ match.blockIndex < Len(text.blocks)
         /\ text.blocks[match.blockIndex + 1].type = "text"

\* the match kept after the replacement
matchAfterReplaceKept(match) == match

\* frMatchRef.current = null at the end of handleReplaceMatch's try block
matchAfterReplace(match) == Null

\* the guard of handleReplaceMatch without its test of frMatchRef.current
noCurrentMatchDataOnly(data, match) == ~data.loaded

\* !frData || !frMatchRef.current
noCurrentMatch(data, match) == ~data.loaded \/ match = Null

\* the tail taken after the length of the replacement instead of the match
replaceSpanByReplacementLength(oldText, match, replaceText) ==
  substring(oldText, 0, match.matchIndex) \o replaceText
    \o substringFrom(oldText, match.matchIndex + Len(replaceText))

\* oldText.substring(0, matchIndex) + replaceText
\*   + oldText.substring(matchIndex + matchLength)
replaceSpan(oldText, match, replaceText) ==
  substring(oldText, 0, match.matchIndex) \o replaceText
    \o substringFrom(oldText, match.matchIndex + match.matchLength)

handleReplaceMatch(replaceText) ==
  IF noCurrentMatch(frData, frMatch)
  THEN toasts' = {"No current match to replace"} /\ UNCHANGED engine
  ELSE IF ~replaceTargetExists(frData, frMatch)
  THEN toasts' = {"Error replacing text"} /\ UNCHANGED engine
  ELSE LET match   == frMatch
           s       == match.sceneIndex + 1
           b       == match.blockIndex + 1
           newFrData == deepCopy(frData).record
           blocks  == newFrData.scenes[s].text.blocks
           oldText == blocks[b].text
           newText == replaceSpan(oldText, match, replaceText)
       IN  /\ frData' = [newFrData EXCEPT !.scenes[s].text =
                           [kind |-> "json",
                            blocks |-> [blocks EXCEPT ![b].text = newText],
                            form |-> "blocksOnly"]]
           /\ frPtr' = [scene |-> match.sceneIndex, block |-> match.blockIndex,
                        offset |-> match.matchIndex + Len(replaceText)]
           /\ frMatch' = matchAfterReplace(match)
           /\ currentMatchDisplay' = Display("Match replaced")
           /\ toasts' = {"Match replaced"}

\* the reset moved into the `if (replacementsCount > 0)` block
pointerAfterReplaceAllIfReplaced(ptr, replacementsCount) ==
  IF replacementsCount > 0 THEN Origin ELSE ptr

\* frPtrRef.current = { scene: 0, block: 0, offset: 0 } at the end of
\* handleReplaceAllMatches, whatever replacementsCount is
pointerAfterReplaceAll(ptr, replacementsCount) == Origin

\* handleReplaceAllMatches after its scene loop, r.scenes being tempFrData's
\* scenes and r.count replacementsCount
replacedAll(r) ==
  /\ frData' = IF r.count > 0
               THEN [frData EXCEPT !.scenes = r.scenes, !.dates = now(frData)]
               ELSE frData
  /\ frPtr' = pointerAfterReplaceAll(frPtr, r.count)
  /\ frMatch' = Null
  /\ currentMatchDisplay' = [text |-> "match(es) replaced", count |-> r.count]
  /\ toasts' = {"replacement(s) made"} \cup
               (IF r.threw THEN {"Error processing scene"} ELSE {})

handleReplaceAllMatches(findPattern, useRegexBackup, replaceText) ==
  IF ~frData.loaded
  THEN toasts' = {"No backup data loaded"} /\ UNCHANGED engine
  ELSE IF rejectsPattern(findPattern, useRegexBackup)
  THEN toasts' = {"Find pattern cannot be empty"} /\ UNCHANGED engine
  ELSE replacedAll(replaceInScenes(deepCopy(frData).record.scenes, 1, findPattern,
                                   useRegexBackup, replaceText, 0, FALSE))

-----------------------------------------------------------------------------
(* EPUB to ZIP tool (EpubToZipTool, lines 1566-1776)                       *)
(*                                                                         *)
(* A path string is kept as its '/'-separated segments, with `rooted` for  *)
(* a leading slash; the empty string has no segment and no slash.  The     *)
(* segments of the model hold no '%' escape and no character a URL would   *)
(* escape.  A raw href attribute is a path with or without a '#fragment'.  *)

\* '' (and a missing attribute, which the code tests the same way)
NoHref == [rooted |-> FALSE, segs |-> <<>>]
Path(segs) == [rooted |-> FALSE, segs |-> segs]
Rooted(segs) == [rooted |-> TRUE, segs |-> segs]
Href(path, fragment) == [path |-> path, fragment |-> fragment]

\* rawHref.split('#')[0]
splitFragment(href) == href.path

\* the pathname new URL(relativePath, baseUrl) computes: '.' dropped, '..'
\* taking the segment before it with it, never past the root
RECURSIVE removeDotSegments(_, _)
removeDotSegments(segs, out) ==
  IF segs = <<>> THEN out
  ELSE IF Head(segs) = "." THEN removeDotSegments(Tail(segs), out)
  ELSE IF Head(segs) = ".."
       THEN removeDotSegments(Tail(segs),
                              IF out = <<>> THEN out ELSE SubSeq(out, 1, Len(out) - 1))
       ELSE removeDotSegments(Tail(segs), Append(out, Head(segs)))

\* the relative path returned without the base directory in front
resolvePathUnjoined(relativePath, baseDirPath) == Path(relativePath.segs)

\* resolvePath(relativePath, baseDirPath), baseDirPath as its segments; the
\* URL constructor does not throw on the paths of the model
resolvePath(relativePath, baseDirPath) ==
  IF relativePath = NoHref THEN NoHref
  ELSE IF baseDirPath = <<>> THEN Path(relativePath.segs)
  ELSE Path(removeDotSegments(IF relativePath.rooted
                              THEN relativePath.segs
                              ELSE baseDirPath \o relativePath.segs,
                              <<>>))

\* An archive (the JSZip object of the selected file):
\*   container  META-INF/container.xml: "missing", "unparsable", "norootfile"
\*              (no rootfile[full-path]) or "ok"
\*   rootfile   the full-path attribute, as segments
\*   opf        the file at rootfile: "missing", "unparsable" or "ok"
\*   nav        manifest > item[properties~="nav"]: whether there is one, its href
\*   spine      spine[toc]: whether there is one naming an id, and the href of
\*              the manifest item with that id (NoHref: no such item or href)
\*   toc        the table-of-contents document: the archive path it is stored
\*              at, "missing" / "unparsable" / "ok", and its entries in
\*              document order, each with its label text and raw href
\*   files      the chapter documents: archive path, and the lines of text
\*              of the body (html), blank lines around them included
NoFile ==
  [selected |-> FALSE, container |-> "missing", rootfile |-> <<>>, opf |-> "missing",
   nav |-> [item |-> FALSE, href |-> NoHref],
   spine |-> [toc |-> FALSE, href |-> NoHref],
   toc |-> [at |-> <<>>, file |-> "missing", entries |-> <<>>],
   files |-> {}]

\* zip.file(path) finds an entry
inZip(zip, path) == ~path.rooted /\ \E f \in zip.files : f.path = path.segs
\* ... and its content
fileAt(zip, path) == CHOOSE f \in zip.files : f.path = path.segs

\* findOpfPath: rootfilePath and the directory part in front of its last '/'
findOpfPath(zip) ==
  IF zip.container # "ok"
  THEN [found |-> FALSE, path |-> <<>>, dir |-> <<>>]
  ELSE [found |-> TRUE, path |-> zip.rootfile,
        dir |-> SubSeq(zip.rootfile, 1, Len(zip.rootfile) - 1)]

\* the two strategies of findTocHref tried in the other order
findTocHrefSpineFirst(opfDoc) ==
  IF opfDoc.spine.toc /\ opfDoc.spine.href # NoHref
  THEN [found |-> TRUE, href |-> opfDoc.spine.href, type |-> "ncx"]
  ELSE IF opfDoc.nav.item /\ opfDoc.nav.href # NoHref
  THEN [found |-> TRUE, href |-> opfDoc.nav.href, type |-> "nav"]
  ELSE [found |-> FALSE, href |-> NoHref, type |-> "none"]

findTocHref(opfDoc) ==
  IF opfDoc.nav.item /\ opfDoc.nav.href # NoHref
  THEN [found |-> TRUE, href |-> opfDoc.nav.href, type |-> "nav"]
  ELSE IF opfDoc.spine.toc /\ opfDoc.spine.href # NoHref
  THEN [found |-> TRUE, href |-> opfDoc.spine.href, type |-> "ncx"]
  ELSE [found |-> FALSE, href |-> NoHref, type |-> "none"]

\* the raw href attribute is not the empty string
hasHref(href) == href.path # NoHref \/ href.fragment

\* the forEach of extractChaptersFromNcx over navPoints k.. (1-based)
RECURSIVE extractChaptersFromNcx(_, _, _)
extractChaptersFromNcx(navPoints, baseDir, k) ==
  IF k > Len(navPoints) THEN <<>>
  ELSE (IF navPoints[k].label # "" /\ hasHref(navPoints[k].href)
        THEN <<[title |-> navPoints[k].label,
                href  |-> resolvePath(splitFragment(navPoints[k].href), baseDir)]>>
        ELSE <<>>)
       \o extractChaptersFromNcx(navPoints, baseDir, k + 1)

\* the forEach of extractChaptersFromNav over the links k.. of the list
RECURSIVE extractChaptersFromNav(_, _, _)
extractChaptersFromNav(links, baseDir, k) ==
  IF k > Len(links) THEN <<>>
  ELSE (IF links[k].label # "" /\ hasHref(links[k].href)
        THEN <<[title |-> links[k].label,
                href  |-> resolvePath(splitFragment(links[k].href), baseDir)]>>
        ELSE <<>>)
       \o extractChaptersFromNav(links, baseDir, k + 1)

\* the hrefs of a chapter list
hrefsOf(chapters) == { chapters[k].href : k \in 1..Len(chapters) }

\* the loop of deduplicateChapters without its test of seenHrefs
RECURSIVE deduplicateChaptersKeepingAll(_, _, _)
deduplicateChaptersKeepingAll(chapters, k, uniqueChapters) ==
  IF k > Len(chapters) THEN uniqueChapters
  ELSE deduplicateChaptersKeepingAll(chapters, k + 1,
         IF chapters[k].href # NoHref
         THEN Append(uniqueChapters, chapters[k])
         ELSE uniqueChapters)

\* the loop of deduplicateChapters from chapter k on (1-based); seenHrefs is
\* the set of hrefs of uniqueChapters
RECURSIVE deduplicateChapters(_, _, _)
deduplicateChapters(chapters, k, uniqueChapters) ==
  IF k > Len(chapters) THEN uniqueChapters
  ELSE deduplicateChapters(chapters, k + 1,
         IF chapters[k].href # NoHref /\ chapters[k].href \notin hrefsOf(uniqueChapters)
         THEN Append(uniqueChapters, chapters[k])
         ELSE uniqueChapters)

\* setStatusMessage({ text, type }); count is the number a message carries
\* and errors how many times the catch clause of handleExtractChapters has
\* put 'Error: ' in front of the text
Message(text) == [text |-> text, count |-> 0, errors |-> 0]
\* statusMessage === null
NoStatus == Message("null")

\* the chapters of the parsed table of contents, in the format tocInfo names
tocChapters(zip, tocInfo, baseDir) ==
  IF tocInfo.type = "ncx"
  THEN extractChaptersFromNcx(zip.toc.entries, baseDir, 1)
  ELSE extractChaptersFromNav(zip.toc.entries, baseDir, 1)

\* getChapterListFromEpub from tocInfo on; the result holds the returned
\* list and the status message set on the way ("unset": none)
chaptersFromToc(zip, opfDir, tocInfo, tocFullPath) ==
  IF zip.toc.file = "missing" \/ tocFullPath.segs # zip.toc.at
  THEN [chapters |-> <<>>, status |-> Message("Error: ToC file not found")]
  ELSE IF zip.toc.file = "unparsable"
  THEN [chapters |-> <<>>,
        status |-> Message(IF tocInfo.type = "ncx" THEN "Error parsing NCX"
                                                    ELSE "Error parsing NAV")]
  ELSE [chapters |-> deduplicateChapters(tocChapters(zip, tocInfo, opfDir), 1, <<>>),
        status |-> Message("unset")]

\* getChapterListFromEpub from opfDoc on
chaptersFromOpf(zip, opfDir, tocInfo) ==
  IF ~tocInfo.found
  THEN [chapters |-> <<>>, status |-> Message("Warning: No standard ToC")]
  ELSE chaptersFromToc(zip, opfDir, tocInfo, resolvePath(tocInfo.href, opfDir))

\* getChapterListFromEpub from opfPathData on
chaptersFromContainer(zip, opfPathData) ==
  IF ~opfPathData.found
  THEN [chapters |-> <<>>, status |-> Message("Error: Could not find OPF")]
  ELSE IF zip.opf = "missing"
  THEN [chapters |-> <<>>, status |-> Message("Error: Could not read OPF")]
  ELSE IF zip.opf = "unparsable"
  THEN [chapters |-> <<>>, status |-> Message("Error: Could not parse OPF")]
  ELSE chaptersFromOpf(zip, opfPathData.dir, findTocHref(zip))

getChapterListFromEpub(zip) == chaptersFromContainer(zip, findOpfPath(zip))

\* text.trim() at the end of extractTextFromHtml: the lines of the body's
\* text without the blank lines in front and behind; <<"">> is the empty
\* string, whose split('\n') is one empty line
RECURSIVE trim(_)
trim(lines) ==
  IF lines = <<>> THEN <<"">>
  ELSE IF Head(lines) = "" THEN trim(Tail(lines))
  ELSE IF lines[Len(lines)] = "" THEN trim(SubSeq(lines, 1, Len(lines) - 1))
  ELSE lines

extractTextFromHtml(html) == trim(html)

\* lines.length > linesToRemove ? lines.slice(linesToRemove).join('\n') : ''
\* under `enableRemoveLines && linesToRemove > 0 && chapterText`
removeLines(chapterText, enableRemoveLines, linesToRemove) ==
  IF enableRemoveLines /\ linesToRemove > 0 /\ chapterText # <<"">>
  THEN IF Len(chapterText) > linesToRemove
       THEN SubSeq(chapterText, linesToRemove + 1, Len(chapterText))
       ELSE <<"">>
  ELSE chapterText

\* chapterText && chapterText.trim().length > 0
hasContent(chapterText) == \E k \in 1..Len(chapterText) : chapterText[k] # ""

\* String(n): the decimal digits of n >= 0
RECURSIVE String(_)
String(n) == IF n < 10 THEN <<n>> ELSE Append(String(n \div 10), n % 10)

\* s.padStart(targetLength, '0')
RECURSIVE padStart(_, _)
padStart(s, targetLength) ==
  IF Len(s) >= targetLength THEN s ELSE padStart(<<0>> \o s, targetLength)

\* `C${String(i + 1).padStart(2, '0')}.txt`, kept as the digits between the
\* C and the extension
txtFilename(i) == padStart(String(i + 1), 2)

\* the loop stopped by the first chapter file that is not in the archive
chapterFileMissingStops(chapters, i) == Len(chapters)

\* `if (!chapterFile) { ...; continue; }`: the index the loop goes on with
chapterFileMissing(chapters, i) == i + 1

\* the chapter loop of handleExtractChapters from index i on (0-based);
\* outputZip holds the files added so far, in the order added
RECURSIVE extractChapters(_, _, _, _, _, _)
RECURSIVE chapterExtracted(_, _, _, _, _, _, _)
extractChapters(epubZip, chapters, i, enableRemoveLines, linesToRemove, outputZip) ==
  IF i >= Len(chapters) THEN outputZip
  ELSE IF ~inZip(epubZip, chapters[i + 1].href)
  THEN extractChapters(epubZip, chapters, chapterFileMissing(chapters, i),
                       enableRemoveLines, linesToRemove, outputZip)
  ELSE chapterExtracted(epubZip, chapters, i, enableRemoveLines, linesToRemove,
                        outputZip,
                        removeLines(extractTextFromHtml(
                                      fileAt(epubZip, chapters[i + 1].href).html),
                                    enableRemoveLines, linesToRemove))

\* ... with chapterText the text of chapter i after the line filter
chapterExtracted(epubZip, chapters, i, enableRemoveLines, linesToRemove, outputZip, chapterText) ==
  extractChapters(epubZip, chapters, i + 1, enableRemoveLines, linesToRemove,
                  IF hasContent(chapterText)
                  THEN Append(outputZip,
                              [name |-> txtFilename(i),
                               text |-> chapterText])
                  ELSE outputZip)

\* downloadUrl === null
NoDownload == <<>>

\* text.includes("Error") || text.includes("Warning") of handleExtractChapters
\* and the lower-case test of handleEpubFileChange, which agree on every
\* message of the tool; null has no text
mentionsErrorOrWarning(status) ==
  \/ status.errors > 0
  \/ status.text \in { "Error: Could not find OPF", "Error: Could not read OPF",
                       "Error: Could not parse OPF", "Warning: No standard ToC",
                       "Error: ToC file not found", "Error parsing NCX",
                       "Error parsing NAV" }

\* handleEpubFileChange once getChapterListFromEpub has returned r; the
\* statusMessage it tests is the one of the render the handler belongs to
epubFileRead(file, r) ==
  /\ selectedEpubFile' = file
  /\ downloadUrl' = NoDownload
  /\ statusMessage' =
       IF Len(r.chapters) > 0
       THEN [text |-> "Found chapters", count |-> Len(r.chapters), errors |-> 0]
       ELSE IF ~mentionsErrorOrWarning(statusMessage)
       THEN Message("No chapters found or ToC unparsable")
       ELSE IF r.status = Message("unset") THEN NoStatus
       ELSE r.status
  /\ toasts' = {}

handleEpubFileChange(file) ==
  IF ~file.selected
  THEN /\ selectedEpubFile' = NoFile
       /\ downloadUrl' = NoDownload
       /\ statusMessage' = NoStatus
       /\ toasts' = {}
  ELSE epubFileRead(file, getChapterListFromEpub(file))

\* new Error(...) thrown for an empty chapter list: the text of the render's
\* statusMessage if it mentions an error or a warning
noChaptersError(status) ==
  IF mentionsErrorOrWarning(status) THEN status
  ELSE Message("No chapters identified in the EPUB")

\* handleExtractChapters after its chapter loop
chaptersExtracted(outputZip) ==
  IF Len(outputZip) > 0
  THEN /\ downloadUrl' = outputZip
       /\ statusMessage' = [text |-> "Extracted chapters into ZIP",
                            count |-> Len(outputZip), errors |-> 0]
       /\ toasts' = {"Download started"}
       /\ UNCHANGED selectedEpubFile
  ELSE /\ statusMessage' = Message("No chapter content retrieved")
       /\ toasts' = {}
       /\ UNCHANGED <<selectedEpubFile, downloadUrl>>

\* handleExtractChapters once getChapterListFromEpub has returned r
chapterListRead(r, enableRemoveLines, linesToRemove) ==
  IF Len(r.chapters) = 0
  THEN /\ statusMessage' = [noChaptersError(statusMessage) EXCEPT
                              !.errors = noChaptersError(statusMessage).errors + 1]
       /\ toasts' = {"Extraction Error"}
       /\ UNCHANGED <<selectedEpubFile, downloadUrl>>
  ELSE chaptersExtracted(extractChapters(selectedEpubFile, r.chapters, 0,
                                         enableRemoveLines, linesToRemove, <<>>))

handleExtractChapters(enableRemoveLines, linesToRemove) ==
  IF ~selectedEpubFile.selected
  THEN /\ toasts' = {"Please select an EPUB file first"}
       /\ UNCHANGED <<selectedEpubFile, statusMessage, downloadUrl>>
  ELSE chapterListRead(getChapterListFromEpub(selectedEpubFile),
                       enableRemoveLines, linesToRemove)

-----------------------------------------------------------------------------
(* Service worker (src/service-worker.js)                                  *)
(*                                                                         *)
(* A URL string is kept in three parts that follow each other in the       *)
(* string: `head`, scheme and host name as far as one of the prefixes the  *)
(* script tests for goes, `tail`, what is left of the host name, and       *)
(* `path`.  A cache is a set of entries, one per URL; an entry holds the   *)
(* URL, the ok flag of the response and the handler that stored it.        *)

CACHE_VERSION == "novelist-tools-v1.6"
\* the names cache storage may hold when the script is installed
CacheNames == {"novelist-tools-v1.5", "other-cache", CACHE_VERSION}

Url(head, tail, path) == [head |-> head, tail |-> tail, path |-> path]
\* self.location.origin
locationOrigin == "https://novelist.example"
\* String.prototype.startsWith for the prefixes the script tests for
startsWith(url, prefix) == url.head = prefix

\* ASSETS, one entry of each kind: a page of the app, an optional
\* screenshot and a CDN module, with the URL new Request(assetUrl) gives it;
\* only the CDN entries are written as absolute URLs
ASSETS ==
  << [text |-> "./index.html", absolute |-> FALSE,
      url |-> Url(locationOrigin, "", "/index.html")],
     [text |-> "./screenshots/screenshot1.png", absolute |-> FALSE,
      url |-> Url(locationOrigin, "", "/screenshots/screenshot1.png")],
     [text |-> "https://esm.sh/react@^19.1.0", absolute |-> TRUE,
      url |-> Url("https://esm.sh", "", "/react@^19.1.0")] >>

\* ASSETS.includes(event.request.url): request.url is an absolute URL
assetsInclude(url) ==
  \E k \in 1..Len(ASSETS) : ASSETS[k].absolute /\ ASSETS[k].url = url

NoCache == [present |-> FALSE, entries |-> {}]
NoCaches == [name \in CacheNames |-> NoCache]
Parsed == [pc |-> "parsed", keys |-> {}, deleting |-> {}]
NoRespond ==
  [request |-> [url |-> Url("", "", ""), mode |-> "none", method |-> "none"],
   network |-> "none", put |-> TRUE, answer |-> "none", fetched |-> FALSE,
   matched |-> FALSE]

\* caches.open(CACHE_VERSION).then(cache => cache.put(request, response)):
\* open makes the cache if there is none, put replaces the entry of the URL
cachePut(storage, request, ok, by) ==
  [storage EXCEPT ![CACHE_VERSION] =
     [present |-> TRUE,
      entries |-> { e \in storage[CACHE_VERSION].entries : e.url # request.url }
                  \cup {[url |-> request.url, method |-> request.method,
                         ok |-> ok, by |-> by]}]]

\* the install handler on the assets from k on: fetched[k] is how the fetch
\* of asset k ends ("ok", "notOk" for a response that is not ok, "rejects")
\* and put[k] whether cache.put resolves
RECURSIVE cacheAssets(_, _, _, _)
cacheAssets(storage, k, fetched, put) ==
  IF k > Len(ASSETS) THEN storage
  ELSE cacheAssets(IF fetched[k] = "ok" /\ put[k]
                   THEN cachePut(storage, [url |-> ASSETS[k].url, method |-> "GET"],
                                 TRUE, "install")
                   ELSE storage,
                   k + 1, fetched, put)

\* the install listener: every catch clause resolves, so waitUntil is given
\* a promise that resolves whatever open, fetch and put do
install(opens, fetched, put) ==
  /\ worker.pc = "parsed"
  /\ caches' = IF opens
               THEN cacheAssets([caches EXCEPT ![CACHE_VERSION].present = TRUE],
                                1, fetched, put)
               ELSE caches
  /\ worker' = [worker EXCEPT !.pc = "installed"]
  /\ UNCHANGED respond

\* every cache deleted, the current one included
shouldDeleteEvery(key) == TRUE

\* key !== CACHE_VERSION
shouldDelete(key) == key # CACHE_VERSION

\* the activate listener up to Promise.all: caches.keys() and a
\* caches.delete(key) started for every key to delete
activateKeys ==
  /\ worker.pc = "installed"
  /\ worker' = [pc |-> "deleting",
                keys |-> { name \in CacheNames : caches[name].present },
                deleting |-> { name \in CacheNames :
                                 caches[name].present /\ shouldDelete(name) }]
  /\ UNCHANGED <<caches, respond>>

\* one caches.delete(key) finishes
cacheDeleted(key) ==
  /\ worker.pc \in {"deleting", "rejected"}
  /\ key \in worker.deleting
  /\ caches' = [caches EXCEPT ![key] = NoCache]
  /\ worker' = [worker EXCEPT !.deleting = @ \ {key}]
  /\ UNCHANGED respond

\* one caches.delete(key) rejects: so does Promise.all, and the then clause
\* behind it is passed over
deleteRejects(key) ==
  /\ worker.pc = "deleting"
  /\ key \in worker.deleting
  /\ worker' = [worker EXCEPT !.pc = "rejected", !.deleting = @ \ {key}]
  /\ UNCHANGED <<caches, respond>>

\* the then clause behind Promise.all: self.clients.claim()
clientsClaim ==
  /\ worker.pc = "deleting"
  /\ worker.deleting = {}
  /\ worker' = [worker EXCEPT !.pc = "claimed"]
  /\ UNCHANGED <<caches, respond>>

\* caches.match(request): an entry of any cache for the URL of a GET request
cachesMatch(storage, request) ==
  request.method = "GET" /\
  \E name \in CacheNames :
    storage[name].present /\ \E e \in storage[name].entries : e.url = request.url

\* no request taken for a navigation
isNavigationNever(request) == FALSE

\* event.request.mode === 'navigate'
isNavigation(request) == request.mode = "navigate"

\* canCache
canCache(url) ==
  \/ startsWith(url, locationOrigin)
  \/ assetsInclude(url)
  \/ startsWith(url, "https://cdnjs.cloudflare.com")
  \/ startsWith(url, "https://esm.sh")

\* the fetch listener for one request: network is how fetch(event.request)
\* ends, put whether cache.put resolves
fetch(request, network, put) ==
  /\ worker.pc \in {"claimed", "rejected"}
  /\ IF isNavigation(request)
     THEN IF network # "rejects"
          THEN /\ caches' = IF network = "ok" /\ put /\ request.method = "GET"
                            THEN cachePut(caches, request, network = "ok", "navigate")
                            ELSE caches
               /\ respond' = [request |-> request, network |-> network, put |-> put,
                              answer |-> "network", fetched |-> TRUE,
                              matched |-> FALSE]
          ELSE /\ caches' = caches
               /\ respond' = [request |-> request, network |-> network, put |-> put,
                              answer |-> IF cachesMatch(caches, request) THEN "cached"
                                         ELSE IF cachesMatch(caches,
                                                   [url |-> ASSETS[1].url,
                                                    mode |-> "navigate",
                                                    method |-> "GET"])
                                         THEN "index.html" ELSE "undefined",
                              fetched |-> TRUE, matched |-> TRUE]
     ELSE IF cachesMatch(caches, request)
          THEN /\ caches' = caches
               /\ respond' = [request |-> request, network |-> "none", put |-> put,
                              answer |-> "cached", fetched |-> FALSE,
                              matched |-> TRUE]
          ELSE /\ caches' = IF /\ network = "ok" /\ request.method = "GET"
                               /\ canCache(request.url) /\ put
                            THEN cachePut(caches, request, network = "ok", "fetch")
                            ELSE caches
               /\ respond' = [request |-> request, network |-> network, put |-> put,
                              answer |-> IF network = "rejects" THEN "error"
                                         ELSE "network",
                              fetched |-> TRUE, matched |-> TRUE]
  /\ UNCHANGED worker

-----------------------------------------------------------------------------
(* Inputs                                                                  *)

Scene(text) == [text |-> text]

\* scene texts a backup file may hold
LoadableTexts ==
  { SceneText(<<TextBlock(<<"a", "a", "a">>)>>),
    SceneText(<<TextBlock(<<"b", "a">>), ImageBlock, TextBlock(<<>>)>>),
    SceneText(<<NullBlock, TextBlock(<<"a">>)>>),
    SceneText(<<TextBlock(<<"a">>), NullBlock>>),
    GarbageText,
    BlankText,
    NoBlocksText,
    SceneText(<<>>) }

RECURSIVE SeqsUpTo(_, _)
SeqsUpTo(S, n) ==
  IF n = 0 THEN {<<>>}
  ELSE LET shorter == SeqsUpTo(S, n - 1)
       IN  shorter \cup { Append(q, x) : q \in shorter, x \in S }

\* the backups the file picker can deliver
Docs == { BackupData(scenes) : scenes \in SeqsUpTo({Scene(t) : t \in LoadableTexts}, MaxScenes) }

\* the backups loaded while the handlers run freely
MainDocs ==
  { BackupData(<<>>),
    BackupData(<<Scene(SceneText(<<ImageBlock>>)),
                 Scene(SceneText(<<TextBlock(<<"a", "a">>)>>))>>),
    BackupData(<<Scene(GarbageText),
                 Scene(SceneText(<<TextBlock(<<"b", "a">>), NullBlock,
                                   TextBlock(<<"a">>)>>))>>),
    BackupData(<<Scene(SceneText(<<TextBlock(<<"a">>), ImageBlock,
                                   TextBlock(<<"a", "b">>)>>))>>) }

\* what the file picker delivers: nothing, a file that is not a backup, or
\* a backup
Files ==
  { [picked |-> FALSE, valid |-> FALSE, data |-> NoData],
    [picked |-> TRUE, valid |-> FALSE, data |-> NoData] }
  \cup { [picked |-> TRUE, valid |-> TRUE, data |-> d] : d \in MainDocs }

\* what the user types into the Find field, with the regex box
Queries ==
  { [pattern |-> <<>>, regex |-> FALSE],
    [pattern |-> <<"a">>, regex |-> FALSE],
    [pattern |-> <<"a", "a">>, regex |-> FALSE],
    [pattern |-> <<"a", "*">>, regex |-> TRUE],
    [pattern |-> <<"[">>, regex |-> TRUE] }
\* and into the Replace field
Replacements == { <<>>, <<"a", "a">> }

\* every block text of the record is within the bound
TextsFit(data) ==
  \A s \in 1..Len(data.scenes) :
    \A b \in 1..Len(data.scenes[s].text.blocks) :
      Len(data.scenes[s].text.blocks[b].text) <= MaxLen

-----------------------------------------------------------------------------
(* The component: any handler at any time.  The Find field, the regex box  *)
(* and the Replace field (findPattern, useRegexBackup, replaceText) are    *)
(* the inputs of a call.                                                   *)

NoSession == [findPattern |-> <<>>, useRegexBackup |-> FALSE, replaceText |-> <<>>]

Init ==
  /\ frData = NoData
  /\ frPtr = Origin
  /\ frMatch = Null
  /\ currentMatchDisplay = Display("Load a backup file")
  /\ toasts = {}
  /\ session = NoSession
  /\ phase = "free"
  /\ fwd = <<>>
  /\ bwd = <<>>
  /\ selectedEpubFile = NoFile
  /\ statusMessage = NoStatus
  /\ downloadUrl = NoDownload
  /\ caches = NoCaches
  /\ worker = Parsed
  /\ respond = NoRespond

LoadFile ==
  /\ \E file \in Files : handleFrBackupFileChange(file)
  /\ UNCHANGED <<script, epub, sw>>

FindNext ==
  /\ \E q \in Queries : handleFindNextMatch(q.pattern, q.regex)
  /\ UNCHANGED <<script, epub, sw>>

FindPrevious ==
  /\ \E q \in Queries : handleFindPreviousMatch(q.pattern, q.regex)
  /\ UNCHANGED <<script, epub, sw>>

ReplaceOne ==
  /\ \E t \in Replacements : handleReplaceMatch(t)
  /\ TextsFit(frData')
  /\ UNCHANGED <<script, epub, sw>>

ReplaceAll ==
  /\ \E q \in Queries, t \in Replacements :
       handleReplaceAllMatches(q.pattern, q.regex, t)
  /\ TextsFit(frData')
  /\ UNCHANGED <<script, epub, sw>>

Next ==
  \/ LoadFile
  \/ FindNext
  \/ FindPrevious
  \/ ReplaceOne
  \/ ReplaceAll

Spec == Init /\ [][Next]_vars

-----------------------------------------------------------------------------
(* Properties of the free-running component                                *)

blockTextAt(data, sceneIndex, blockIndex) ==
  data.scenes[sceneIndex + 1].text.blocks[blockIndex + 1].text

\* occurrences of the non-empty p in t, counted from the left without overlap
RECURSIVE occurrences(_, _)
occurrences(t, p) ==
  IF Len(t) < Len(p) THEN 0
  ELSE IF SubSeq(t, 1, Len(p)) = p
       THEN 1 + occurrences(SubSeq(t, Len(p) + 1, Len(t)), p)
       ELSE occurrences(Tail(t), p)

\* ... summed over blocks b.. of a block list; upToNull stops at a null entry
RECURSIVE occurrencesInBlocks(_, _, _, _)
occurrencesInBlocks(blocks, b, p, upToNull) ==
  IF b > Len(blocks) \/ (upToNull /\ blocks[b].type = "null") THEN 0
  ELSE (IF blocks[b].type = "text" THEN occurrences(blocks[b].text, p) ELSE 0)
       + occurrencesInBlocks(blocks, b + 1, p, upToNull)

\* ... and over scenes s.. of a record
RECURSIVE occurrencesInScenes(_, _, _, _)
occurrencesInScenes(scenes, s, p, upToNull) ==
  IF s > Len(scenes) THEN 0
  ELSE occurrencesInBlocks(scenes[s].text.blocks, 1, p, upToNull)
       + occurrencesInScenes(scenes, s + 1, p, upToNull)

\* A step of the component is a call of one handler, and toasts' holds what
\* that call showed; each of the following is the handler's own relation
\* between the two states of a step, with the toasts it can show put first.
FindToasts ==
  { {}, {"Regex Error"}, {"No backup data loaded"}, {"Find pattern cannot be empty"} }
findNextStep(q) ==
  toasts' \in FindToasts /\ handleFindNextMatch(q.pattern, q.regex)
findPreviousStep(q) ==
  toasts' \in FindToasts /\ handleFindPreviousMatch(q.pattern, q.regex)
replaceOneStep(R) ==
  /\ toasts' \in { {"No current match to replace"}, {"Error replacing text"},
                   {"Match replaced"} }
  /\ handleReplaceMatch(R)
replaceAllStep(q, R) ==
  /\ \/ "replacement(s) made" \in toasts'
     \/ toasts' \in { {"No backup data loaded"}, {"Find pattern cannot be empty"} }
  /\ handleReplaceAllMatches(q.pattern, q.regex, R)

\* the call passes the guards at the head of a find or replaceAll handler
accepted(q) == frData.loaded /\ ~(q.pattern = <<>> /\ ~q.regex)

\* C2: replaceOne with a held match [i, i+len) in block b of scene s and
\* replacement R leaves that block's text as text[0:i] + R + text[i+len:] and
\* the cursor at (s, b, i + length(R))
ReplaceOneCorrect ==
  [][\A R \in Replacements :
       (frData.loaded /\ frMatch # Null /\ replaceOneStep(R)) =>
         LET s    == frMatch.sceneIndex
             b    == frMatch.blockIndex
             i    == frMatch.matchIndex
             len  == frMatch.matchLength
             text == blockTextAt(frData, s, b)
         IN  /\ blockTextAt(frData', s, b) =
                  SubSeq(text, 1, i) \o R \o SubSeq(text, i + len + 1, Len(text))
             /\ frPtr' = [scene |-> s, block |-> b, offset |-> i + Len(R)]]_vars

\* a replaceOne has just replaced a match that did not start its block by a
\* text longer than the match
ReplaceOneWitness ==
  /\ currentMatchDisplay = Display("Match replaced")
  /\ toasts = {"Match replaced"}
  /\ frPtr.offset = 3

BadRegexIsPatternError ==
  [][\A q \in Queries :
       (/\ q.regex /\ ~Compiles(q.pattern) /\ frData.loaded
        /\ findNextStep(q) \/ findPreviousStep(q)) =>
         "Regex Error" \in toasts']_vars

\* C5: findNext, findPrevious and replaceAll with a regex that does not
\* compile leave the cursor and lastMatch as they were
FailedCallKeepsState ==
  [][\A q \in Queries, R \in Replacements :
       (/\ q.regex /\ ~Compiles(q.pattern) /\ frData.loaded
        /\ findNextStep(q) \/ findPreviousStep(q) \/ replaceAllStep(q, R)) =>
         (frPtr' = frPtr /\ frMatch' = frMatch)]_vars

\* C6: replaceOne while no match is held, or no document is loaded, fails
\* with the NoActiveMatch toast and leaves record, cursor and lastMatch alone
ReplaceWithoutMatchFails ==
  [][\A R \in Replacements :
       ((~frData.loaded \/ frMatch = Null) /\ replaceOneStep(R)) =>
         /\ toasts' = {"No current match to replace"}
         /\ frData' = frData /\ frPtr' = frPtr /\ frMatch' = frMatch]_vars

\* a replaceOne has just failed for want of a match, with a document loaded
\* and the cursor moved by an earlier search
ReplaceWithoutMatchWitness ==
  /\ toasts = {"No current match to replace"}
  /\ frData.loaded
  /\ frMatch = Null
  /\ frPtr # Origin

\* the cursor positions of a record, one past each end included
Cursors(data) ==
  { [scene |-> s, block |-> b, offset |-> o] :
      s \in 0..Len(data.scenes), b \in 0..3, o \in 0..(MaxLen + 1) }

\* C7: the search with an empty pattern and isRegex = false finds nothing
\* from any cursor position of any document, and the findNext handler called
\* with it produces no match
EmptyPatternNeverMatches ==
  /\ [](\A ptr \in Cursors(frData) :
          frData.loaded =>
            findNextMatchInternal(<<>>, FALSE, frData, ptr).match = Null)
  /\ [][findNextStep([pattern |-> <<>>, regex |-> FALSE]) =>
          (frMatch' = frMatch /\ frPtr' = frPtr /\ frData' = frData)]_vars

\* findNext has just been called with the empty plain pattern on a document
\* that has text to search
EmptyPatternWitness ==
  /\ toasts = {"Find pattern cannot be empty"}
  /\ frData.loaded
  /\ findNextMatchInternal(<<"a">>, FALSE, frData, Origin).match # Null

\* C8: after a successful load and after every completed replaceAll the
\* cursor is (0,0,0) and no match is held
CursorReset ==
  currentMatchDisplay.text \in {"Backup loaded", "match(es) replaced"} =>
    (frPtr = Origin /\ frMatch = Null)

\* a replaceAll that replaced nothing has completed on a record in which a
\* replaceOne had moved the cursor before
CursorResetWitness ==
  /\ currentMatchDisplay = [text |-> "match(es) replaced", count |-> 0]
  /\ \E s \in 1..Len(frData.scenes) : frData.scenes[s].text.form = "blocksOnly"

\* the call findNext / findPrevious with query q returns a match
nextReturnsMatch(q) ==
  accepted(q)
    /\ findNextMatchInternal(q.pattern, q.regex, frData, frPtr).match # Null
previousReturnsMatch(q) ==
  accepted(q)
    /\ findPreviousMatchInternal(q.pattern, q.regex, frData, frPtr).match # Null

BackwardDefaultStart ==
  [][\A q \in Queries :
       (/\ currentMatchDisplay.text \in {"Backup loaded", "match(es) replaced"}
        /\ accepted(q) /\ (q.regex => Compiles(q.pattern))
        /\ findPreviousStep(q)) =>
         frMatch' = findPreviousMatchInternal(q.pattern, q.regex, frData,
                      [scene |-> Len(frData.scenes), block |-> 0,
                       offset |-> 0]).match]_vars

-----------------------------------------------------------------------------
(* A scripted run: a backup has just been loaded, the Find field and the   *)
(* regex box stay as they are, Find Next is clicked until it reports no     *)
(* match, then Find Previous until it reports no match.  fwd and bwd are   *)
(* the positions the two passes returned, in the order returned.           *)

position(match) == <<match.sceneIndex, match.blockIndex, match.matchIndex>>

RECURSIVE Reverse(_)
Reverse(q) == IF q = <<>> THEN <<>> ELSE Append(Reverse(Tail(q)), Head(q))

InitSym ==
  /\ frData \in Docs
  /\ frPtr = Origin
  /\ frMatch = Null
  /\ currentMatchDisplay = Display("Backup loaded")
  /\ toasts = {"Backup file loaded"}
  /\ \E q \in Queries :
       session = [findPattern |-> q.pattern, useRegexBackup |-> q.regex,
                  replaceText |-> <<>>]
  /\ phase = "forward"
  /\ fwd = <<>>
  /\ bwd = <<>>
  /\ selectedEpubFile = NoFile
  /\ statusMessage = NoStatus
  /\ downloadUrl = NoDownload
  /\ caches = NoCaches
  /\ worker = Parsed
  /\ respond = NoRespond

SymFindNext ==
  /\ phase = "forward"
  /\ handleFindNextMatch(session.findPattern, session.useRegexBackup)
  /\ IF frMatch' # Null
     THEN fwd' = Append(fwd, position(frMatch')) /\ phase' = phase
     ELSE fwd' = fwd /\ phase' = "backward"
  /\ UNCHANGED <<session, bwd, epub, sw>>

SymFindPrevious ==
  /\ phase = "backward"
  /\ handleFindPreviousMatch(session.findPattern, session.useRegexBackup)
  /\ IF frMatch' # Null
     THEN bwd' = Append(bwd, position(frMatch')) /\ phase' = phase
     ELSE bwd' = bwd /\ phase' = "done"
  /\ UNCHANGED <<session, fwd, epub, sw>>

NextSym == SymFindNext \/ SymFindPrevious

SpecSym == InitSym /\ [][NextSym]_vars

\* C1: once both passes are over, the backward pass has returned the
\* positions of the forward pass in reverse order
SymmetryClaim == phase = "done" => bwd = Reverse(fwd)

\* the forward pass on its own, over the backups made of four of the scene
\* texts, with Find Next clicked sooner or later for as long as it lasts
RunDocs ==
  { BackupData(scenes) :
      scenes \in SeqsUpTo({ Scene(t) : t \in
                             { SceneText(<<TextBlock(<<"a", "a", "a">>)>>),
                               SceneText(<<TextBlock(<<"b", "a">>), ImageBlock,
                                           TextBlock(<<>>)>>),
                               SceneText(<<NullBlock, TextBlock(<<"a">>)>>),
                               GarbageText } },
                           MaxScenes) }
InitFwd == InitSym /\ frData \in RunDocs
SpecFwdFair == InitFwd /\ [][SymFindNext]_vars /\ WF_vars(SymFindNext)

\* position p comes before position q in the order of scene, block, offset
before(p, q) ==
  \/ p[1] < q[1]
  \/ p[1] = q[1] /\ p[2] < q[2]
  \/ p[1] = q[1] /\ p[2] = q[2] /\ p[3] < q[3]

\* C23: a findNext that returns a match leaves the cursor in the block of
\* the match at matchIndex + max(matchLength, 1); the positions the forward
\* pass returns come in strictly increasing order; the forward pass ends
\* with a findNext that returns no match, and a findNext called again then
\* returns no match either
ForwardProgress ==
  /\ [][(phase = "forward" /\ frMatch' # Null) =>
          frPtr' = [scene |-> frMatch'.sceneIndex, block |-> frMatch'.blockIndex,
                    offset |-> frMatch'.matchIndex + Max(frMatch'.matchLength, 1)]]_vars
  /\ [](\A k \in 1..(Len(fwd) - 1) : before(fwd[k], fwd[k + 1]))
  /\ []((phase = "backward" /\ bwd = <<>>) =>
          findNextMatchInternal(session.findPattern, session.useRegexBackup,
                                frData, frPtr).match = Null)
  /\ <>(phase # "forward")

\* the forward pass is over and has returned an empty match and, in a later
\* scene, a match that is not empty
ForwardProgressWitness ==
  /\ phase = "backward" /\ bwd = <<>>
  /\ Len(fwd) >= 3
  /\ fwd[1][1] # fwd[Len(fwd)][1]
  /\ frPtr.offset = 3
  /\ session.useRegexBackup

\* the offsets of text t at which a search for the session's pattern can
\* report a match: every occurrence of a literal pattern; of a regex, the
\* matches a global scan from lastIndex on lists, less an empty match at
\* the end of a text that is not empty
RECURSIVE regexStarts(_, _, _)
regexStarts(t, p, lastIndex) ==
  IF exec(p, t, lastIndex).index = -1 THEN {}
  ELSE {exec(p, t, lastIndex).index} \cup
       regexStarts(t, p, exec(p, t, lastIndex).index + Max(exec(p, t, lastIndex).length, 1))
matchStarts(t, pattern, useRegex) ==
  IF useRegex
  THEN { i \in regexStarts(t, pattern, 0) : i < Len(t) \/ Len(t) = 0 }
  ELSE { i \in 0..Len(t) : startsAt(t, pattern, i) }

\* the positions of the record in front of the cursor at which there is a
\* match: in the cursor's block those with a smaller offset, and all those
\* of earlier blocks and scenes
matchesInFrontOf(data, ptr, pattern, useRegex) ==
  { pos \in UNION { UNION { { <<s, b, i>> :
                               i \in IF data.scenes[s + 1].text.blocks[b + 1].type = "text"
                                     THEN matchStarts(data.scenes[s + 1].text.blocks[b + 1].text,
                                                      pattern, useRegex)
                                     ELSE {} } :
                            b \in 0..(Len(data.scenes[s + 1].text.blocks) - 1) } :
                    s \in 0..(Len(data.scenes) - 1) } :
      before(pos, <<ptr.scene, ptr.block, ptr.offset>>) }

\* C24: findPrevious returns the last match in front of the cursor, the one
\* in the cursor's block with the greatest offset below the cursor's or else
\* the last match of the nearest earlier block that has one, and leaves the
\* cursor at it; if there is none it returns no match
PreviousSelectsLastMatch ==
  [][(/\ phase = "backward"
      /\ ~rejectsPattern(session.findPattern, session.useRegexBackup)
      /\ session.useRegexBackup => Compiles(session.findPattern)) =>
       LET front == matchesInFrontOf(frData, frPtr, session.findPattern,
                                     session.useRegexBackup)
       IN  IF front = {}
           THEN frMatch' = Null
           ELSE /\ position(frMatch') \in front
                /\ \A pos \in front : pos = position(frMatch') \/ before(pos, position(frMatch'))
                /\ <<frPtr'.scene, frPtr'.block, frPtr'.offset>> = position(frMatch')]_vars

\* C27: a findNext called right after a findPrevious that returned a match
\* returns the position of that match, and a findPrevious called right after
\* a findNext that returned a match returns the position of that match
ReversalReportsCurrentMatch ==
  /\ (phase = "backward" /\ frMatch # Null) =>
       position(findNextMatchInternal(session.findPattern, session.useRegexBackup,
                                      frData, frPtr).match) = position(frMatch)
  /\ (phase = "forward" /\ frMatch # Null) =>
       position(findPreviousMatchInternal(session.findPattern, session.useRegexBackup,
                                          frData, frPtr).match) = position(frMatch)

-----------------------------------------------------------------------------
(* Another scripted run: a backup has just been loaded, the Find field,    *)
(* the regex box and the Replace field stay as they are, and Find Next and *)
(* Replace are clicked in turn until Find Next reports no match.           *)

InitStep ==
  /\ frData \in Docs
  /\ frPtr = Origin
  /\ frMatch = Null
  /\ currentMatchDisplay = Display("Backup loaded")
  /\ toasts = {"Backup file loaded"}
  /\ \E q \in Queries, R \in Replacements :
       session = [findPattern |-> q.pattern, useRegexBackup |-> q.regex,
                  replaceText |-> R]
  /\ phase = "find"
  /\ fwd = <<>>
  /\ bwd = <<>>
  /\ selectedEpubFile = NoFile
  /\ statusMessage = NoStatus
  /\ downloadUrl = NoDownload
  /\ caches = NoCaches
  /\ worker = Parsed
  /\ respond = NoRespond

StepFindNext ==
  /\ phase = "find"
  /\ handleFindNextMatch(session.findPattern, session.useRegexBackup)
  /\ phase' = IF frMatch' # Null THEN "replace" ELSE "done"
  /\ UNCHANGED <<session, fwd, bwd, epub, sw>>

\* a text of twice MaxLen has room for a replacement at every character of
\* a text of MaxLen
StepReplaceOne ==
  /\ phase = "replace"
  /\ handleReplaceMatch(session.replaceText)
  /\ \A s \in 1..Len(frData'.scenes) :
       \A b \in 1..Len(frData'.scenes[s].text.blocks) :
         Len(frData'.scenes[s].text.blocks[b].text) <= 2 * MaxLen
  /\ phase' = "find"
  /\ UNCHANGED <<session, fwd, bwd, epub, sw>>

NextStep == StepFindNext \/ StepReplaceOne

SpecStepFair ==
  InitStep /\ [][NextStep]_vars /\ WF_vars(StepFindNext) /\ WF_vars(StepReplaceOne)

\* C25: the run ends: sooner or later Find Next reports no match; and a
\* match Find Next returns in the block of the replacement before it does
\* not start in front of the end of the text that was put in
StepwiseTerminates ==
  /\ [][(/\ phase = "find" /\ frMatch' # Null
         /\ currentMatchDisplay.text = "Match replaced"
         /\ frMatch'.sceneIndex = frPtr.scene /\ frMatch'.blockIndex = frPtr.block) =>
          frMatch'.matchIndex >= frPtr.offset]_vars
  /\ <>(phase = "done")

-----------------------------------------------------------------------------
(* The EPUB to ZIP tool: a file is picked, or Extract Chapters is clicked   *)
(* with the line filter set one way or another, at any time.               *)

\* raw entries of a table of contents: label text and href attribute
Entry(label, path, fragment) == [label |-> label, href |-> Href(path, fragment)]

ChapterOne == Entry("One", Path(<<"text", "c1.xhtml">>), FALSE)
ChapterTwo == Entry("Two", Path(<<"text", "c2.xhtml">>), FALSE)
SectionOfOne == Entry("One, section", Path(<<"text", "c1.xhtml">>), TRUE)
DottedOne == Entry("One, dotted", Path(<<".", "text", "c1.xhtml">>), FALSE)
TwoFromAbove == Entry("Two, from above", Path(<<"..", "OEBPS", "text", "c2.xhtml">>), FALSE)
RootedTwo == Entry("Two, rooted", Rooted(<<"OEBPS", "text", "c2.xhtml">>), FALSE)
GoneChapter == Entry("Gone", Path(<<"text", "c0.xhtml">>), FALSE)
BlankChapter == Entry("Blank", Path(<<"text", "c3.xhtml">>), FALSE)
TopOfPage == Entry("Top", NoHref, TRUE)
Unlabelled == Entry("", Path(<<"text", "c2.xhtml">>), FALSE)

\* the tables of contents of the books
Tocs ==
  { <<ChapterOne, ChapterTwo>>,
    <<ChapterOne, SectionOfOne, ChapterTwo, ChapterOne>>,
    <<DottedOne, ChapterOne, TwoFromAbove, ChapterTwo>>,
    <<GoneChapter, ChapterOne, ChapterTwo>>,
    <<ChapterOne, BlankChapter, ChapterTwo>>,
    <<TopOfPage, Unlabelled, RootedTwo, ChapterOne>>,
    <<GoneChapter, BlankChapter>>,
    <<>> }

\* a well-formed book: package descriptor content.opf in directory dir, the
\* table of contents at tocHref from there, declared as nav item ("nav"), by
\* the spine's toc attribute ("ncx"), or as nav item beside a spine toc
\* attribute that names an item toc.ncx the archive does not hold ("both");
\* three chapter documents under dir/text, c3 without text
Book(dir, tocHref, declared, entries) ==
  [selected  |-> TRUE,
   container |-> "ok",
   rootfile  |-> dir \o <<"content.opf">>,
   opf       |-> "ok",
   nav       |-> IF declared = "ncx" THEN [item |-> FALSE, href |-> NoHref]
                 ELSE [item |-> TRUE, href |-> Path(tocHref)],
   spine     |-> IF declared = "nav" THEN [toc |-> FALSE, href |-> NoHref]
                 ELSE IF declared = "ncx" THEN [toc |-> TRUE, href |-> Path(tocHref)]
                 ELSE [toc |-> TRUE, href |-> Path(<<"toc.ncx">>)],
   toc       |-> [at |-> dir \o tocHref, file |-> "ok", entries |-> entries],
   files     |-> { [path |-> dir \o <<"text", "c1.xhtml">>, html |-> <<"", "title", "", "x", "">>],
                   [path |-> dir \o <<"text", "c2.xhtml">>, html |-> <<"x">>],
                   [path |-> dir \o <<"text", "c3.xhtml">>, html |-> <<"", "">>] }]

\* where the package descriptor and the table of contents lie, and how the
\* table of contents is declared
Layouts ==
  { [dir |-> <<"OEBPS">>, tocHref |-> <<"toc.ncx">>, declared |-> "ncx"],
    [dir |-> <<"OEBPS">>, tocHref |-> <<"nav.xhtml">>, declared |-> "both"],
    [dir |-> <<"OEBPS">>, tocHref |-> <<"nav", "toc.xhtml">>, declared |-> "nav"],
    [dir |-> <<>>, tocHref |-> <<"toc.ncx">>, declared |-> "ncx"],
    [dir |-> <<>>, tocHref |-> <<"nav.xhtml">>, declared |-> "nav"] }

\* the legacy-format book: container -> OEBPS/content.opf, spine toc="ncx",
\* item id="ncx" href="toc.ncx", two navPoints text/c1.xhtml, text/c2.xhtml
LegacyBook == Book(<<"OEBPS">>, <<"toc.ncx">>, "ncx", <<ChapterOne, ChapterTwo>>)

\* files that are no well-formed book
BrokenBooks ==
  { [LegacyBook EXCEPT !.container = "missing"],
    [LegacyBook EXCEPT !.container = "unparsable"],
    [LegacyBook EXCEPT !.container = "norootfile"],
    [LegacyBook EXCEPT !.opf = "missing"],
    [LegacyBook EXCEPT !.opf = "unparsable"],
    [LegacyBook EXCEPT !.spine = [toc |-> FALSE, href |-> NoHref]],
    [LegacyBook EXCEPT !.spine = [toc |-> TRUE, href |-> NoHref]],
    [LegacyBook EXCEPT !.nav = [item |-> TRUE, href |-> NoHref]],
    [LegacyBook EXCEPT !.nav = [item |-> TRUE, href |-> NoHref],
                       !.spine = [toc |-> FALSE, href |-> NoHref]],
    [LegacyBook EXCEPT !.toc.file = "missing"],
    [LegacyBook EXCEPT !.toc.file = "unparsable"],
    [Book(<<"OEBPS">>, <<"nav.xhtml">>, "nav", <<ChapterOne>>)
       EXCEPT !.toc.file = "unparsable"] }

\* the files the file picker can deliver
Epubs ==
  { Book(l.dir, l.tocHref, l.declared, t) : l \in Layouts, t \in Tocs }
    \cup BrokenBooks

\* the line filter: the checkbox and the number field
LineFilters ==
  { [enableRemoveLines |-> FALSE, linesToRemove |-> 1],
    [enableRemoveLines |-> TRUE, linesToRemove |-> 0],
    [enableRemoveLines |-> TRUE, linesToRemove |-> 1],
    [enableRemoveLines |-> TRUE, linesToRemove |-> 2] }

InitEpub == Init

SelectEpub ==
  /\ \E file \in Epubs \cup {NoFile} : handleEpubFileChange(file)
  /\ UNCHANGED <<engine, script, sw>>

ExtractChapters ==
  /\ \E f \in LineFilters :
       handleExtractChapters(f.enableRemoveLines, f.linesToRemove)
  /\ statusMessage'.errors <= MaxErrors
  /\ UNCHANGED <<engine, script, sw>>

NextEpub == SelectEpub \/ ExtractChapters

SpecEpub == InitEpub /\ [][NextEpub]_vars

-----------------------------------------------------------------------------
(* Properties of the EPUB to ZIP tool                                      *)

\* the resolver gets as far as parsing the table of contents of zip
tocParsed(zip) == zip.selected /\ getChapterListFromEpub(zip).status = Message("unset")
\* the archive path it reads the table of contents from
tocFullPathOf(zip) == resolvePath(findTocHref(zip).href, findOpfPath(zip).dir)
\* the entries it takes from the table of contents, before deduplication
rawChapters(zip) == tocChapters(zip, findTocHref(zip), findOpfPath(zip).dir)
\* the list it returns
chapterList(zip) == getChapterListFromEpub(zip).chapters

\* the n-th smallest element of a set of numbers
nth(S, n) == CHOOSE k \in S : Cardinality({ j \in S : j <= k }) = n
\* the positions of raw at which a path shows up for the first time
firstOccurrences(raw) ==
  { k \in 1..Len(raw) :
      raw[k].href # NoHref /\ \A j \in 1..(k - 1) : raw[j].href # raw[k].href }

\* C11: no two entries of the list the resolver returns have the same path;
\* the entries are the table-of-contents entries at which a path shows up
\* for the first time, in table-of-contents order; the count shown after a
\* file is picked is the length of that list
DeduplicatedChapterList ==
  tocParsed(selectedEpubFile) =>
    LET list == chapterList(selectedEpubFile)
        raw  == rawChapters(selectedEpubFile)
    IN  /\ \A i, j \in 1..Len(list) : i # j => list[i].href # list[j].href
        /\ Len(list) = Cardinality(firstOccurrences(raw))
        /\ \A n \in 1..Len(list) : list[n] = raw[nth(firstOccurrences(raw), n)]
        /\ statusMessage.text = "Found chapters" => statusMessage.count = Len(list)

\* a book is picked whose table of contents names a path twice, the second
\* time behind another path
DeduplicatedWitness ==
  /\ statusMessage.text = "Found chapters"
  /\ LET raw == rawChapters(selectedEpubFile)
     IN  \E i, j, k \in 1..Len(raw) :
           i < j /\ j < k /\ raw[i].href = raw[k].href /\ raw[i].href # raw[j].href

\* C12: the chapter paths are the hrefs of the table of contents resolved
\* against the directory of the table-of-contents document
ResolvedAgainstTocDirectory ==
  tocParsed(selectedEpubFile) =>
    chapterList(selectedEpubFile) =
      deduplicateChapters(
        tocChapters(selectedEpubFile, findTocHref(selectedEpubFile),
                    SubSeq(tocFullPathOf(selectedEpubFile).segs, 1,
                           Len(tocFullPathOf(selectedEpubFile).segs) - 1)),
        1, <<>>)

\* C13: no path of the list has a '.' or '..' segment or a leading slash,
\* whatever the base directory is
PathsFullyResolved ==
  tocParsed(selectedEpubFile) =>
    \A n \in 1..Len(chapterList(selectedEpubFile)) :
      LET path == chapterList(selectedEpubFile)[n].href
      IN  /\ ~path.rooted
          /\ \A k \in 1..Len(path.segs) : path.segs[k] \notin {".", ".."}

\* C14: with the package descriptor read, a nav item with an href makes the
\* resolver take that href in the modern format, spine toc attribute or not;
\* otherwise a spine toc attribute whose manifest item has an href makes it
\* take that href in the legacy format; otherwise it returns no chapter and
\* the message that no table of contents is linked
TocSelection ==
  (selectedEpubFile.selected /\ selectedEpubFile.container = "ok"
     /\ selectedEpubFile.opf = "ok") =>
    LET zip == selectedEpubFile
        dir == findOpfPath(zip).dir
        navHref == IF zip.nav.item THEN zip.nav.href ELSE NoHref
        ncxHref == IF zip.spine.toc THEN zip.spine.href ELSE NoHref
    IN  IF navHref # NoHref
        THEN getChapterListFromEpub(zip) =
               chaptersFromToc(zip, dir, [found |-> TRUE, href |-> navHref, type |-> "nav"],
                               resolvePath(navHref, dir))
        ELSE IF ncxHref # NoHref
        THEN getChapterListFromEpub(zip) =
               chaptersFromToc(zip, dir, [found |-> TRUE, href |-> ncxHref, type |-> "ncx"],
                               resolvePath(ncxHref, dir))
        ELSE getChapterListFromEpub(zip) =
               [chapters |-> <<>>, status |-> Message("Warning: No standard ToC")]

\* a book is picked that has a nav item and a spine toc attribute, and its
\* chapters are found
TocSelectionWitness ==
  /\ selectedEpubFile.nav.item /\ selectedEpubFile.nav.href # NoHref
  /\ selectedEpubFile.spine.toc /\ selectedEpubFile.spine.href # NoHref
  /\ statusMessage.text = "Found chapters"

\* C15: for the legacy-format book the resolver returns two chapters, with
\* the paths OEBPS/text/c1.xhtml and OEBPS/text/c2.xhtml in that order
LegacyScenario ==
  selectedEpubFile = LegacyBook =>
    /\ chapterList(selectedEpubFile) =
         << [title |-> "One", href |-> Path(<<"OEBPS", "text", "c1.xhtml">>)],
            [title |-> "Two", href |-> Path(<<"OEBPS", "text", "c2.xhtml">>)] >>
    /\ statusMessage.text = "Found chapters" => statusMessage.count = Len(<<1, 2>>)

\* the legacy-format book is picked and two chapters are reported
LegacyScenarioWitness ==
  /\ selectedEpubFile = LegacyBook
  /\ statusMessage.text = "Found chapters"

\* C16: the k-th file written to the output has the number k, padded to two
\* digits, in its name
OutputNumbering ==
  \A k \in 1..Len(downloadUrl) : downloadUrl[k].name = padStart(String(k), 2)

\* Extract Chapters is clicked with the line filter f
extractStep(f) ==
  /\ toasts' \in { {}, {"Download started"}, {"Extraction Error"},
                   {"Please select an EPUB file first"} }
  /\ handleExtractChapters(f.enableRemoveLines, f.linesToRemove)

\* the text of chapter k of the list that goes to the output under filter f
outputText(zip, chapter, f) ==
  removeLines(extractTextFromHtml(fileAt(zip, chapter.href).html),
              f.enableRemoveLines, f.linesToRemove)
\* the chapters of list that are in the archive and have text under filter f
included(zip, list, f) ==
  { k \in 1..Len(list) :
      inZip(zip, list[k].href) /\ hasContent(outputText(zip, list[k], f)) }

\* C17: a chapter whose path is not in the archive is passed over: the
\* output holds the text of every chapter of the list that is in the archive
\* and has text, in list order, and the extraction succeeds when there is one
MissingChapterSkipped ==
  [][\A f \in LineFilters :
       LET zip  == selectedEpubFile
           list == chapterList(zip)
           inc  == included(zip, list, f)
       IN  (zip.selected /\ inc # {} /\ extractStep(f)) =>
             /\ statusMessage' = [text |-> "Extracted chapters into ZIP",
                                  count |-> Cardinality(inc), errors |-> 0]
             /\ Len(downloadUrl') = Cardinality(inc)
             /\ \A n \in 1..Cardinality(inc) :
                  downloadUrl'[n].text = outputText(zip, list[nth(inc, n)], f)]_vars

\* an extraction has succeeded on a book whose first chapter is not in the
\* archive
MissingChapterWitness ==
  /\ statusMessage.text = "Extracted chapters into ZIP"
  /\ Len(chapterList(selectedEpubFile)) > 1
  /\ ~inZip(selectedEpubFile, chapterList(selectedEpubFile)[1].href)
  /\ Len(downloadUrl) = Len(chapterList(selectedEpubFile)) - 1

\* C18: an extraction that fails in the resolver ends with the message of
\* the stage that failed
FailureReasonReported ==
  [][\A f \in LineFilters :
       (/\ selectedEpubFile.selected
        /\ getChapterListFromEpub(selectedEpubFile).status # Message("unset")
        /\ extractStep(f)) =>
         statusMessage'.text = getChapterListFromEpub(selectedEpubFile).status.text]_vars

-----------------------------------------------------------------------------
(* The service worker: installed over what cache storage holds, activated, *)
(* and then handed fetch events.                                           *)

\* cache storage as earlier versions of the script and other scripts of the
\* origin may have left it
OldCaches ==
  { [name \in CacheNames |->
       IF name \in old
       THEN [present |-> TRUE,
             entries |-> {[url |-> ASSETS[1].url, method |-> "GET",
                           ok |-> TRUE, by |-> name]}]
       ELSE NoCache] : old \in SUBSET CacheNames }

\* the requests of a page: a navigation, requests of the app's origin, of a
\* CDN of ASSETS, of a host whose name begins like that of the CDN, and of
\* another host
Requests ==
  { [url |-> Url(locationOrigin, "", "/index.html"), mode |-> "navigate", method |-> "GET"],
    [url |-> Url(locationOrigin, "", "/chapter"), mode |-> "navigate", method |-> "GET"],
    [url |-> Url(locationOrigin, "", "/index.html"), mode |-> "cors", method |-> "GET"],
    [url |-> Url(locationOrigin, "", "/index.html"), mode |-> "cors", method |-> "POST"],
    [url |-> Url("https://esm.sh", "", "/react@^19.1.0"), mode |-> "cors", method |-> "GET"],
    [url |-> Url("https://esm.sh", ".evil.example", "/react.js"), mode |-> "cors", method |-> "GET"],
    [url |-> Url("https://fonts.example", "", "/font.woff"), mode |-> "no-cors", method |-> "GET"] }
NetworkOutcomes == {"ok", "notOk", "rejects"}

InitSW ==
  /\ frData = NoData
  /\ frPtr = Origin
  /\ frMatch = Null
  /\ currentMatchDisplay = Display("Load a backup file")
  /\ toasts = {}
  /\ session = NoSession
  /\ phase = "free"
  /\ fwd = <<>>
  /\ bwd = <<>>
  /\ selectedEpubFile = NoFile
  /\ statusMessage = NoStatus
  /\ downloadUrl = NoDownload
  /\ caches \in OldCaches
  /\ worker = Parsed
  /\ respond = NoRespond

Install ==
  /\ \E opens \in BOOLEAN, fetched \in [1..Len(ASSETS) -> NetworkOutcomes],
        put \in [1..Len(ASSETS) -> BOOLEAN] : install(opens, fetched, put)
  /\ UNCHANGED <<engine, toasts, script, epub>>

ActivateKeys == activateKeys /\ UNCHANGED <<engine, toasts, script, epub>>

CacheDeleted ==
  /\ \E key \in CacheNames : cacheDeleted(key)
  /\ UNCHANGED <<engine, toasts, script, epub>>

DeleteRejects ==
  /\ \E key \in CacheNames : deleteRejects(key)
  /\ UNCHANGED <<engine, toasts, script, epub>>

ClientsClaim == clientsClaim /\ UNCHANGED <<engine, toasts, script, epub>>

Fetch ==
  /\ \E request \in Requests, network \in NetworkOutcomes, put \in BOOLEAN :
       fetch(request, network, put)
  /\ UNCHANGED <<engine, toasts, script, epub>>

NextSW ==
  Install \/ ActivateKeys \/ CacheDeleted \/ DeleteRejects \/ ClientsClaim \/ Fetch

SpecSW == InitSW /\ [][NextSW]_vars

-----------------------------------------------------------------------------
(* Further properties of replaceOne and replaceAll                         *)

\* a replaceOne has just put a text in place of a match
replacedOne == toasts' = {"Match replaced"}
\* a replaceAll has just run to its end
replacedAllScenes == "replacement(s) made" \in toasts'

RECURSIVE blockFrame(_)
blockFrame(blocks) ==
  IF blocks = <<>> THEN <<>>
  ELSE <<IF Head(blocks).type = "text" THEN TextBlock(<<>>) ELSE Head(blocks)>>
       \o blockFrame(Tail(blocks))
\* ... and of the scenes of a record, in their order
RECURSIVE sceneFrames(_)
sceneFrames(scenes) ==
  IF scenes = <<>> THEN <<>>
  ELSE <<[kind |-> Head(scenes).text.kind, blocks |-> blockFrame(Head(scenes).text.blocks)]>>
       \o sceneFrames(Tail(scenes))
\* the blocks whose text is not the same in the two records
changedBlocks(old, new) ==
  { sb \in UNION { { <<s, b>> : b \in 1..Len(old.scenes[s].text.blocks) } :
                    s \in 1..Len(old.scenes) } :
      new.scenes[sb[1]].text.blocks[sb[2]].text # old.scenes[sb[1]].text.blocks[sb[2]].text }
\* the match is in a text block of the record
inTextBlock(data, match) ==
  /\ match.sceneIndex \in 0..(Len(data.scenes) - 1)
  /\ data.scenes[match.sceneIndex + 1].text.kind = "json"
  /\ match.blockIndex \in 0..(Len(data.scenes[match.sceneIndex + 1].text.blocks) - 1)
  /\ data.scenes[match.sceneIndex + 1].text.blocks[match.blockIndex + 1].type = "text"
\* a search has returned a match only in a text block; a replaceOne or
\* replaceAll has left the scenes, the blocks and the non-text blocks alone
textBlocksOnly ==
  /\ (currentMatchDisplay'.text = "Match found") => inTextBlock(frData', frMatch')
  /\ (replacedOne \/ replacedAllScenes) => sceneFrames(frData'.scenes) = sceneFrames(frData.scenes)

\* C22 as stated: a match findNext or findPrevious returns is in a text block;
\* replaceOne and replaceAll leave every non-text block, the number and order
\* of the blocks of every scene and the number and order of the scenes as
\* they were; after a replaceOne exactly one block has another text
OnlyTextBlocksTouched ==
  [][/\ textBlocksOnly
     /\ replacedOne => Cardinality(changedBlocks(frData, frData')) = 1]_vars

\* C22 amended: ... after a replaceOne no block other than the block of the
\* held match has another text, and that block has one unless the
\* replacement is the text of the match
OnlyMatchedTextBlockTouched ==
  [][/\ textBlocksOnly
     /\ replacedOne =>
          /\ changedBlocks(frData, frData') \subseteq
               {<<frMatch.sceneIndex + 1, frMatch.blockIndex + 1>>}
          /\ \A R \in Replacements :
               (/\ R # substring(blockTextAt(frData, frMatch.sceneIndex, frMatch.blockIndex),
                                 frMatch.matchIndex, frMatch.matchIndex + frMatch.matchLength)
                /\ changedBlocks(frData, frData') = {}) => ~replaceOneStep(R)]_vars

\* a replaceOne has changed the last block of a scene that has an image
\* block in front of it
OnlyTextBlocksWitness ==
  /\ toasts = {"Match replaced"}
  /\ \E s \in 1..Len(frData.scenes) :
       /\ frData.scenes[s].text.form = "blocksOnly"
       /\ Len(frData.scenes[s].text.blocks) = 3
       /\ frData.scenes[s].text.blocks[2] = ImageBlock
       /\ frData.scenes[s].text.blocks[3].text # <<"a", "b">>

\* C26: while a record is loaded, a held match names a text block of the
\* record and ends within the text of that block
HeldMatchValid ==
  (frData.loaded /\ frMatch # Null) =>
    /\ inTextBlock(frData, frMatch)
    /\ frMatch.matchIndex >= 0 /\ frMatch.matchLength >= 0
    /\ frMatch.matchIndex + frMatch.matchLength <=
         Len(blockTextAt(frData, frMatch.sceneIndex, frMatch.blockIndex))

\* a match is held in a block whose text a replaceOne has made shorter before
HeldMatchWitness ==
  /\ frData.loaded /\ frMatch # Null
  /\ frData.scenes[frMatch.sceneIndex + 1].text.form = "blocksOnly"
  /\ Len(blockTextAt(frData, frMatch.sceneIndex, frMatch.blockIndex)) = 1
  /\ frMatch.matchLength = 1

\* C19: a completed replaceAll, the one call that shows the toast
\* 'replacement(s) made', changes the dates of the record if and only if it
\* reports at least one replacement; a scene in which it replaced nothing
\* has the text it had before; with none reported the record is the one it
\* was
ReplaceAllFrame ==
  [][("replacement(s) made" \in toasts') =>
       /\ (frData'.dates # frData.dates) <=> (currentMatchDisplay'.count >= 1)
       /\ currentMatchDisplay'.count = 0 => frData' = frData
       /\ Len(frData'.scenes) = Len(frData.scenes)
       /\ \A q \in Queries, R \in Replacements, k \in 1..Len(frData.scenes) :
            (/\ accepted(q)
             /\ frData'.scenes[k].text # frData.scenes[k].text
             /\ replaceInScene(frData.scenes[k], q.pattern, q.regex, R).count = 0) =>
              ~replaceAllStep(q, R)]_vars

\* a replaceAll has replaced something in the second scene of a record and
\* nothing in the first, whose text is the text of the file
ReplaceAllFrameWitness ==
  /\ currentMatchDisplay.text = "match(es) replaced"
  /\ currentMatchDisplay.count >= 1
  /\ frData.dates # 0
  /\ Len(frData.scenes) = 2
  /\ frData.scenes[1].text = SceneText(<<ImageBlock>>)
  /\ frData.scenes[2].text.form = "content"

\* C20: the count a replaceAll reports is the number of replacements in the
\* record it leaves: for a literal pattern replaced by the empty text, the
\* number of occurrences that are in the record before the call and not
\* after it
SkippedSceneNotCounted ==
  [][\A q \in Queries :
       (/\ accepted(q) /\ ~q.regex
        /\ "replacement(s) made" \in toasts'
        /\ replaceAllStep(q, <<>>)) =>
         currentMatchDisplay'.count =
           occurrencesInScenes(frData.scenes, 1, q.pattern, FALSE)
           - occurrencesInScenes(frData'.scenes, 1, q.pattern, FALSE)]_vars

-----------------------------------------------------------------------------
(* Properties of the service worker                                        *)

\* the step on which the activate handler completes
activateCompletes == worker.pc = "deleting" /\ worker'.pc = "claimed"

\* C28: when the activate handler completes, cache storage holds no cache
\* with a name other than CACHE_VERSION, the cache named CACHE_VERSION is
\* never deleted by the handler, and clients.claim() is called only when
\* every deletion the handler started has finished
ActivateCleansCaches ==
  [][/\ activateCompletes =>
          /\ \A name \in CacheNames \ {CACHE_VERSION} : ~caches'[name].present
          /\ worker.deleting = {}
          /\ \A key \in worker.keys \ {CACHE_VERSION} : ~caches[key].present
     /\ (worker.pc \in {"installed", "deleting", "rejected"}
         /\ caches[CACHE_VERSION].present) => caches'[CACHE_VERSION].present]_vars

\* an activation over two old caches and the current one has completed
ActivateCleansCachesWitness ==
  /\ worker.pc = "claimed"
  /\ worker.keys = CacheNames
  /\ caches[CACHE_VERSION].present
  /\ caches[CACHE_VERSION].entries # {}

\* C29: a navigation is answered with the network response whenever the
\* fetch resolves and from the cache only when it rejects (the entry of the
\* request, else that of ./index.html); any other request with a cached
\* match is answered from the cache without a fetch, and otherwise with the
\* network response, a rejected fetch being passed on as an error
FetchStrategy ==
  [][respond' # respond =>
       LET r == respond' IN
       IF r.request.mode = "navigate"
       THEN /\ r.fetched
            /\ r.network # "rejects" => (r.answer = "network" /\ ~r.matched)
            /\ r.network = "rejects" =>
                 r.answer = (IF cachesMatch(caches, r.request) THEN "cached"
                             ELSE IF caches[CACHE_VERSION].present /\
                                     \E e \in caches[CACHE_VERSION].entries :
                                        e.url.path = "/index.html"
                             THEN "index.html" ELSE r.answer)
       ELSE IF cachesMatch(caches, r.request)
            THEN r.answer = "cached" /\ ~r.fetched
            ELSE /\ r.fetched
                 /\ r.answer = (IF r.network = "rejects" THEN "error"
                                ELSE "network")]_vars

\* a navigation to a page that is not cached was answered offline with
\* ./index.html
FetchStrategyWitness ==
  /\ respond.request.mode = "navigate"
  /\ respond.request.url.path = "/chapter"
  /\ respond.network = "rejects"
  /\ respond.answer = "index.html"

\* the URL is of the origin of the app
sameOrigin(url) == url.head = locationOrigin /\ url.tail = ""
\* the URL is of one of the two CDNs
onAllowedCdn(url) ==
  url.head \in {"https://cdnjs.cloudflare.com", "https://esm.sh"} /\ url.tail = ""

\* C30: every response in the cache of the worker has ok status; one stored
\* for a request that is not a navigation belongs to a GET request whose URL
\* is same-origin, listed in ASSETS or on one of the two CDNs; and a cache
\* write that fails does not keep the network response from the page
CacheContent ==
  /\ \A e \in caches[CACHE_VERSION].entries :
       /\ e.ok
       /\ e.by = "fetch" =>
            /\ e.method = "GET"
            /\ sameOrigin(e.url) \/ assetsInclude(e.url) \/ onAllowedCdn(e.url)
  /\ (respond.fetched /\ respond.network # "rejects" /\ ~respond.put) =>
       respond.answer = "network"

====
